---- MODULE Spec2Model ----
(***************************************************************************)
(* Model of the expenditure_analysis ledger: the SQLAlchemy store          *)
(* (database.py), the CSV import loop (csv_parser.py), the interactive     *)
(* categorizer loop (categorizer.py), the CLI commands (expense_tracker.py)*)
(* and the TUI transaction actions (tui/screens/transactions.py).          *)
(*                                                                         *)
(* Amounts and balances are integers counted in cents (0.01 CHF).          *)
(* Texts are sequences of one-letter strings, so that upper-casing and     *)
(* substring matching are computed, not assumed.                           *)
(***************************************************************************)
EXTENDS Integers, Sequences, FiniteSets, TLC

VARIABLES
    accounts,      \* accounts table: the set of account names that exist
    mainAccts,     \* the accounts whose is_main column is set
    balance,       \* Account.balance column, per account name
    categories,    \* expense_categories table: the set of category names
    expenses,      \* expenses table: a set of rows with a unique id
    catRules,      \* category_indicators table, in insertion order
    xferRules,     \* transfer_indicators table, in insertion order
    pc,            \* "idle", or "categorize" while categorize_expenses waits in its loop
    queue,         \* the expense ids categorize_expenses has still to visit
    mark,          \* history: per expense id, how the row became a transfer and which
                   \* Account.balance columns were adjusted for it
    lastImport,    \* history: the last import_transactions call, where it is recorded
    mRules,        \* matcher harness: the category rules under test
    mTx,           \* matcher harness: the transaction under test
    mResult,       \* matcher harness: the result of the last lookup
    at,            \* statement-level run of categorize_expenses: the statement reached
    work,          \* statement-level run: the rows and balances as the open session holds
                   \* them, committed or not (the ledger variables are the committed ones)
    counts,        \* statement-level run: categorized_count and skipped_count
    table,         \* TUI: the TransactionList widget (filter, list, displayed rows, cursor)
    screen,        \* TUI: TransactionsScreen.gg_pressed and the timers set_timer started
    keys           \* history: the last navigation key typed and the time since the last g

vars == <<accounts, mainAccts, balance, categories, expenses, catRules, xferRules,
          pc, queue, mark, lastImport, mRules, mTx, mResult, at, work, counts,
          table, screen, keys>>

matchVars == <<mRules, mTx, mResult>>
sessVars == <<at, work, counts>>
tuiVars == <<table, screen, keys>>

-----------------------------------------------------------------------------
(* Bounds of the model *)

\* at most this many rows in the expenses table of the ledger
MaxExpenses == 1
\* at most this many rows in the expenses table of the import runs
MaxImportRows == 2
\* at most this many rows in each rule table
MaxRules == 1
\* longest batch handed to import_transactions in the ledger
MaxBatch == 1
\* longest batch handed to import_transactions in the import runs
MaxImportBatch == 2
\* the categorizer stops marking transfers once a stored balance would leave -MaxBalance..MaxBalance
MaxBalance == 3
\* rules in the matcher harness
MaxMatchRules == 2
\* rules in the transfer matcher harness
MaxTransferRules == 3
\* rows of the table when the Database methods are called on their own
MaxDatabaseRows == 1
\* at most this many rows in the expenses table in the statement-level runs of
\* categorize_expenses
MaxSessionRows == 2
\* at most this many rows in the table the screen shows
MaxListRows == 2
\* ticks per second; set_timer(1.0, ...) runs its callback this many ticks later
TicksPerSecond == 3

\* the 0.01 of `abs(amount - ind.amount) > 0.01`, in cents
Tolerance == 1

None == "None"

-----------------------------------------------------------------------------
(* Texts *)

\* str.upper() on the letters the model uses
Upper(c) ==
    CASE c = "t" -> "T"
      [] c = "o" -> "O"
      [] c = "b" -> "B"
      [] c = "z" -> "Z"
      [] c = "k" -> "K"
      [] c = "v" -> "V"
      [] c = "a" -> "A"
      [] c = "l" -> "L"
      [] c = "p" -> "P"
      [] OTHER -> c

UpperStr(s) == [i \in 1..Len(s) |-> Upper(s[i])]

\* Python's `p in d` on strings
IsSubstring(p, d) ==
    \E i \in 0..(Len(d) - Len(p)) : \A j \in 1..Len(p) : d[i + j] = p[j]

Abs(x) == IF x < 0 THEN -x ELSE x

-----------------------------------------------------------------------------
(* Matcher: database.py *)

\* ORDER BY amount IS NOT NULL DESC, length(pattern) DESC: does a sort before b
Outranks(a, b) ==
    \/ a.amount # {} /\ b.amount = {}
    \/ (a.amount # {}) = (b.amount # {}) /\ Len(a.pattern) > Len(b.pattern)

\* x placed behind every row it does not outrank (rows of equal rank stay in rowid order)
InsertRanked(sorted, x) ==
    LET k == Cardinality({i \in 1..Len(sorted) : ~Outranks(x, sorted[i])})
    IN  SubSeq(sorted, 1, k) \o <<x>> \o SubSeq(sorted, k + 1, Len(sorted))

RECURSIVE OrderIndicators(_)
OrderIndicators(rules) ==
    IF rules = <<>> THEN <<>>
    ELSE InsertRanked(OrderIndicators(SubSeq(rules, 1, Len(rules) - 1)), rules[Len(rules)])

\* The amounts are Python floats parsed from two-decimal texts, written here in cents.
\* The smaller amounts c of the pairs (c, c + 1) below 0.11 whose difference, computed in
\* IEEE-754 doubles, is above the double 0.01: 0.04 - 0.03 = 0.010000000000000002,
\* 0.05 - 0.04 = 0.010000000000000002, 0.07 - 0.06 = 0.010000000000000009,
\* 0.10 - 0.09 = 0.010000000000000009 (while 0.02 - 0.01 = 0.01 and
\* 0.03 - 0.02 = 0.009999999999999998).
RoundsAboveTolerance == {3, 4, 6, 9}

\* abs(amount - ind.amount) > 0.01 as the doubles give it
ExceedsTolerance(amount, a) ==
    LET d == Abs(amount - a)
        lo == IF amount < a THEN amount ELSE a
    IN  d > Tolerance \/ (d = Tolerance /\ lo \in RoundsAboveTolerance)

\* the three tests of the scan loop, for one indicator
IndicatorMatches(ind, description_upper, amount, is_credit) ==
    /\ IsSubstring(ind.pattern, description_upper)
    /\ \A a \in ind.amount : ~ExceedsTolerance(amount, a)
    /\ \A c \in ind.is_credit : ~(c # is_credit)

RECURSIVE ScanIndicators(_, _, _, _)
ScanIndicators(indicators, description_upper, amount, is_credit) ==
    IF indicators = <<>> THEN None
    ELSE IF IndicatorMatches(Head(indicators), description_upper, amount, is_credit)
         THEN Head(indicators).category
         ELSE ScanIndicators(Tail(indicators), description_upper, amount, is_credit)

find_category_by_description(rules, description, amount, is_credit) ==
    ScanIndicators(OrderIndicators(rules), UpperStr(description), amount, is_credit)

\* a variant without filter_by(source_account_id=...)
find_transfer_any_source(rules, description, source_account) ==
    LET description_upper == UpperStr(description)
        IsMatch(ind) == IsSubstring(ind.pattern, description_upper)
        matches == SelectSeq(rules, IsMatch)
    IN  IF matches = <<>> THEN None
        ELSE LET best == CHOOSE i \in 1..Len(matches) :
                             /\ \A j \in 1..Len(matches) : Len(matches[j].pattern) <= Len(matches[i].pattern)
                             /\ \A j \in 1..(i - 1) : Len(matches[j].pattern) < Len(matches[i].pattern)
             IN  matches[best].target

\* max(matches, key=len): the first of the longest
find_transfer_by_description(rules, description, source_account) ==
    LET description_upper == UpperStr(description)
        IsMatch(ind) == ind.source = source_account /\ IsSubstring(ind.pattern, description_upper)
        matches == SelectSeq(rules, IsMatch)
    IN  IF matches = <<>> THEN None
        ELSE LET best == CHOOSE i \in 1..Len(matches) :
                             /\ \A j \in 1..Len(matches) : Len(matches[j].pattern) <= Len(matches[i].pattern)
                             /\ \A j \in 1..(i - 1) : Len(matches[j].pattern) < Len(matches[i].pattern)
             IN  matches[best].target

\* a variant that stores the pattern as it was typed
add_category_indicator_as_typed(rules, pattern, category, amount, is_credit) ==
    Append(rules, [pattern |-> pattern, category |-> category,
                   amount |-> amount, is_credit |-> is_credit])

add_category_indicator(rules, pattern, category, amount, is_credit) ==
    Append(rules, [pattern |-> UpperStr(pattern), category |-> category,
                   amount |-> amount, is_credit |-> is_credit])

add_transfer_indicator(rules, pattern, source_account, target_account) ==
    Append(rules, [pattern |-> UpperStr(pattern), source |-> source_account,
                   target |-> target_account])

-----------------------------------------------------------------------------
(* Ledger: database.py *)

\* what one row adds to get_account_balance(account)
BalanceTerm(e, account) ==
    IF e.account = account
    THEN IF e.target # None THEN -e.amount
         ELSE IF e.is_credit THEN e.amount ELSE -e.amount
    ELSE IF e.target = account THEN e.amount ELSE 0

RECURSIVE SumTerms(_, _)
SumTerms(rows, account) ==
    IF rows = {} THEN 0
    ELSE LET e == CHOOSE x \in rows : TRUE
         IN  BalanceTerm(e, account) + SumTerms(rows \ {e}, account)

get_account_balance(rows, account) ==
    SumTerms({e \in rows : e.account = account \/ e.target = account}, account)

\* a variant that compares the description case-normalised
expense_exists_upper(rows, date, description, amount) ==
    \E e \in rows : e.date = date /\ e.description = UpperStr(description) /\ e.amount = amount

\* a variant that leaves the amount out of the filter
expense_exists_no_amount(rows, date, description, amount) ==
    \E e \in rows : e.date = date /\ e.description = description

expense_exists(rows, date, description, amount) ==
    \E e \in rows : e.date = date /\ e.description = description /\ e.amount = amount

\* the rowid given to a new row (an identity; the smallest one not in use)
NewId(rows) ==
    CHOOSE i \in 1..(Cardinality(rows) + 1) :
        /\ \A e \in rows : e.id # i
        /\ \A j \in 1..(i - 1) : \E e \in rows : e.id = j

add_expense(rows, date, description, amount, is_credit, category, reference, account, is_transfer, target_account) ==
    rows \cup {[id |-> NewId(rows), date |-> date, description |-> description,
                amount |-> amount, is_credit |-> is_credit, category |-> category,
                reference |-> reference, account |-> account,
                is_transfer |-> is_transfer, target |-> target_account]}

delete_expense(rows, e) == rows \ {e}

update_expense_category(rows, e, category) ==
    (rows \ {e}) \cup {[e EXCEPT !.category = category]}

\* new_amount, new_description and new_category are sets: empty for None
update_expense(rows, e, new_amount, new_description, new_category) ==
    LET e1 == IF new_amount # {} THEN [e EXCEPT !.amount = CHOOSE a \in new_amount : TRUE] ELSE e
        e2 == IF new_description # {}
              THEN [e1 EXCEPT !.description = CHOOSE d \in new_description : TRUE] ELSE e1
        e3 == IF new_category # {}
              THEN [e2 EXCEPT !.category = CHOOSE c \in new_category : TRUE] ELSE e2
    IN  (rows \ {e}) \cup {e3}

get_uncategorized_expenses(rows) == {e \in rows : e.category = None /\ ~e.is_transfer}

Row(rows, id) == CHOOSE e \in rows : e.id = id

-----------------------------------------------------------------------------
(* Inputs *)

\* booking texts of statement rows
Descriptions == { <<"t", "o", "B">>, <<"z", "k">> }
\* booking dates, as day numbers
Dates == {1}
\* amounts of statement rows, in cents
Amounts == {1, 3}
\* ZKB references
References == {"r"}
\* patterns typed at the pattern prompts
Patterns == { <<"t", "o">> }
\* balances typed at the set-balance prompt
TargetBalances == {0, 1}

\* the dicts parse_zkb_statement returns
Records == [date : Dates, description : Descriptions, amount : Amounts,
            is_credit : BOOLEAN, reference : References]

RECURSIVE SeqsUpTo(_, _)
SeqsUpTo(S, n) ==
    IF n = 0 THEN {<<>>}
    ELSE LET shorter == SeqsUpTo(S, n - 1)
         IN  shorter \cup {Append(q, x) : q \in {t \in shorter : Len(t) = n - 1}, x \in S}

Batches == SeqsUpTo(Records, MaxBatch)

\* statement rows of the import runs: two booking dates
ImportDates == {1, 2}
\* the records of the statements imported there: one record and the records that
\* differ from it in one field
ImportBase == [date |-> 1, description |-> <<"t", "o", "B">>, amount |-> 1,
               is_credit |-> FALSE, reference |-> "r"]
ImportRecords ==
    {r \in [date : ImportDates, description : Descriptions, amount : Amounts,
            is_credit : BOOLEAN, reference : References] :
        Cardinality({f \in {"date", "description", "amount", "is_credit"} :
                        r[f] # ImportBase[f]}) <= 1}
ImportBatches == SeqsUpTo(ImportRecords, MaxImportBatch)

\* setup_categories' default_categories and default_accounts, cut to the ones the model tells apart
DefaultCategories == {"Food", "Inserted"}
DefaultAccounts == {"Main", "Revolut"}
\* names typed at create_new_category's prompt
NewCategoryNames == {"Food"}
AccountNames == DefaultAccounts \cup {"MainAccount"}

\* rowids
RowIds ==
    1..(CHOOSE n \in {MaxExpenses, MaxImportRows, MaxSessionRows, MaxListRows} :
           \A m \in {MaxExpenses, MaxImportRows, MaxSessionRows, MaxListRows} : m <= n)

\* mark of a row that no code path made a transfer
NoMark == [how |-> "none", resident |-> None, other |-> None,
           debited |-> None, credited |-> None]
NoImport == [recorded |-> FALSE, batch |-> <<>>, imported |-> 0, skipped |-> 0, log |-> <<>>,
             repeat |-> FALSE]

-----------------------------------------------------------------------------
(* The store after construction: Base.metadata.create_all on an empty file *)

InitLedger ==
    /\ accounts = {}
    /\ mainAccts = {}
    /\ balance = [a \in AccountNames |-> 0]
    /\ categories = {}
    /\ expenses = {}
    /\ catRules = <<>>
    /\ xferRules = <<>>
    /\ pc = "idle"
    /\ queue = <<>>
    /\ mark = [i \in RowIds |-> NoMark]
    /\ lastImport = NoImport

InitMatchIdle ==
    /\ mRules = <<>>
    /\ mTx = [description |-> <<>>, amount |-> 0, is_credit |-> FALSE]
    /\ mResult = None

\* no categorize_expenses call is running
AtIdle == [pos |-> "idle", other |-> None, manual |-> FALSE, category |-> None]
NoWork == [expenses |-> {}, balance |-> [a \in AccountNames |-> 0]]
NoCounts == [categorized |-> 0, skipped |-> 0]

InitSessionIdle ==
    /\ at = AtIdle
    /\ work = NoWork
    /\ counts = NoCounts

\* TransactionList.__init__ and TransactionsScreen.__init__; the screen is not mounted
NoTable == [mounted |-> FALSE, filter_mode |-> "all", search_term |-> <<>>,
            transactions |-> <<>>, rows |-> <<>>, cursor_row |-> 0]
NoScreen == [gg_pressed |-> FALSE, timers |-> {}]
NoKeys == [last |-> "none", age |-> 0]

InitTuiClosed ==
    /\ table = NoTable
    /\ screen = NoScreen
    /\ keys = NoKeys

Init == InitLedger /\ InitMatchIdle /\ InitSessionIdle /\ InitTuiClosed

get_main_account == IF mainAccts = {} THEN None ELSE CHOOSE a \in mainAccts : TRUE

-----------------------------------------------------------------------------
(* expense_tracker.py setup *)

setup_categories ==
    /\ pc = "idle"
    /\ categories' = IF categories = {} THEN DefaultCategories ELSE categories
    /\ IF accounts = {}
       THEN /\ accounts' = DefaultAccounts
            /\ mainAccts' = {"Main"}
       ELSE UNCHANGED <<accounts, mainAccts>>
    /\ lastImport' = NoImport
    /\ UNCHANGED <<balance, expenses, catRules, xferRules, pc, queue, mark>>
    /\ UNCHANGED <<matchVars, sessVars, tuiVars>>

-----------------------------------------------------------------------------
(* csv_parser.py import_transactions *)

\* a variant that passes the category found even when a transfer rule matched
ImportOneKeepsCategory(st, trans, main_account) ==
    IF expense_exists(st.rows, trans.date, trans.description, trans.amount)
    THEN [st EXCEPT !.skipped = @ + 1, !.log = Append(@, "skipped")]
    ELSE LET category == find_category_by_description(catRules, trans.description,
                                                      trans.amount, trans.is_credit)
             target_account == find_transfer_by_description(xferRules, trans.description,
                                                            main_account)
             is_transfer == target_account # None
         IN  [st EXCEPT
                 !.rows = add_expense(st.rows, trans.date, trans.description, trans.amount,
                                      trans.is_credit, category,
                                      trans.reference, main_account, is_transfer,
                                      target_account),
                 !.imported = @ + 1,
                 !.log = Append(@, "imported"),
                 !.mark = IF is_transfer
                          THEN [@ EXCEPT ![NewId(st.rows)] =
                                   [how |-> "import", resident |-> main_account,
                                    other |-> target_account, debited |-> None,
                                    credited |-> None]]
                          ELSE @]

\* one iteration of `for trans in transactions`, on the loop's state st
ImportOne(st, trans, main_account) ==
    IF expense_exists(st.rows, trans.date, trans.description, trans.amount)
    THEN [st EXCEPT !.skipped = @ + 1, !.log = Append(@, "skipped")]
    ELSE LET category == find_category_by_description(catRules, trans.description,
                                                      trans.amount, trans.is_credit)
             target_account == find_transfer_by_description(xferRules, trans.description,
                                                            main_account)
             is_transfer == target_account # None
         IN  [st EXCEPT
                 !.rows = add_expense(st.rows, trans.date, trans.description, trans.amount,
                                      trans.is_credit,
                                      IF ~is_transfer THEN category ELSE None,
                                      trans.reference, main_account, is_transfer,
                                      target_account),
                 !.imported = @ + 1,
                 !.log = Append(@, "imported"),
                 !.mark = IF is_transfer
                          THEN [@ EXCEPT ![NewId(st.rows)] =
                                   [how |-> "import", resident |-> main_account,
                                    other |-> target_account, debited |-> None,
                                    credited |-> None]]
                          ELSE @]

RECURSIVE ImportLoop(_, _, _)
ImportLoop(st, transactions, main_account) ==
    IF transactions = <<>> THEN st
    ELSE ImportLoop(ImportOne(st, Head(transactions), main_account), Tail(transactions),
                    main_account)

DuplicateKey(r) == <<r.date, r.description, r.amount>>

\* rows a batch can add: the guard that keeps the table within a row limit
NewKeys(batch) ==
    {DuplicateKey(batch[i]) : i \in 1..Len(batch)} \ {DuplicateKey(e) : e \in expenses}

\* main_account as the call finds or creates it
ImportMain == IF get_main_account = None THEN "MainAccount" ELSE get_main_account

\* the loop's state when the call returns
ImportOutcome(batch) ==
    ImportLoop([rows |-> expenses, imported |-> 0, skipped |-> 0, log |-> <<>>,
                mark |-> mark], batch, ImportMain)

\* the whole call, on a table of at most `limit` rows; `recorded` says whether what
\* the call returned is kept in lastImport
import_transactions(batch, limit, recorded) ==
    /\ pc = "idle"
    /\ Cardinality(expenses) + Cardinality(NewKeys(batch)) <= limit
    /\ IF get_main_account = None
       THEN /\ "MainAccount" \notin accounts
            /\ accounts' = accounts \cup {"MainAccount"}
            /\ mainAccts' = {"MainAccount"}
       ELSE UNCHANGED <<accounts, mainAccts>>
    /\ LET out == ImportOutcome(batch)
       IN  /\ expenses' = out.rows
           /\ mark' = out.mark
           /\ lastImport' = IF recorded
                            THEN [recorded |-> TRUE, batch |-> batch,
                                  imported |-> out.imported, skipped |-> out.skipped,
                                  log |-> out.log,
                                  repeat |-> lastImport.recorded /\ lastImport.batch = batch]
                            ELSE NoImport
    /\ UNCHANGED <<balance, categories, catRules, xferRules, pc, queue>>
    /\ UNCHANGED <<matchVars, sessVars, tuiVars>>

\* the import command in the ledger
Import(batch) == import_transactions(batch, MaxExpenses, FALSE)

-----------------------------------------------------------------------------
(* categorizer.py categorize_expenses, one loop iteration per step *)

\* ORDER BY date ASC (rows of one date in rowid order)
RECURSIVE OrderByDate(_)
OrderByDate(rows) ==
    IF rows = {} THEN <<>>
    ELSE LET first == CHOOSE e \in rows :
                          \A x \in rows : e.date < x.date \/ (e.date = x.date /\ e.id <= x.id)
         IN  <<first.id>> \o OrderByDate(rows \ {first})

\* the loop's current expense and its main_account
Current == Row(expenses, Head(queue))
MainOf(e) == IF e.account # None THEN e.account ELSE get_main_account

\* "For credits: other -> main, For debits: main -> other"
ActualSource(e, main_account, other) == IF e.is_credit THEN other ELSE main_account
\* a variant that makes the main account the target of debits too
ActualTargetAlwaysMain(e, main_account, other) == main_account

ActualTarget(e, main_account, other) == IF e.is_credit THEN main_account ELSE other

\* a variant that sets the flag and no target account
MarkedRowFlagOnly(e, main_account, other) == [e EXCEPT !.is_transfer = TRUE]

\* expense.is_transfer = True; expense.target_account = actual_target
MarkedRow(e, main_account, other) ==
    [e EXCEPT !.is_transfer = TRUE, !.target = ActualTarget(e, main_account, other)]

\* actual_source.balance -= expense.amount; actual_target.balance += expense.amount
AdjustedBalance(bal, e, main_account, other) ==
    LET src == ActualSource(e, main_account, other)
        tgt == ActualTarget(e, main_account, other)
        b1 == [bal EXCEPT ![src] = @ - e.amount]
    IN  [b1 EXCEPT ![tgt] = @ + e.amount]

WithinBalanceBound(bal) == \A a \in AccountNames : Abs(bal[a]) <= MaxBalance

\* the block that marks the current expense as a transfer with `other` and commits
MarkTransfer(e, other, how) ==
    LET main_account == MainOf(e)
    IN  /\ WithinBalanceBound(AdjustedBalance(balance, e, main_account, other))
        /\ expenses' = (expenses \ {e}) \cup {MarkedRow(e, main_account, other)}
        /\ balance' = AdjustedBalance(balance, e, main_account, other)
        /\ mark' = [mark EXCEPT ![e.id] =
                       [how |-> how, resident |-> main_account, other |-> other,
                        debited |-> ActualSource(e, main_account, other),
                        credited |-> ActualTarget(e, main_account, other)]]

\* a variant that does not see the rule saved last
AutoCategoryBeforeLast(e) ==
    find_category_by_description(SubSeq(catRules, 1, Len(catRules) - 1), e.description,
                                 e.amount, e.is_credit)

AutoOther(e) == find_transfer_by_description(xferRules, e.description, MainOf(e))
AutoCategory(e) == find_category_by_description(catRules, e.description, e.amount, e.is_credit)

CategorizeBegin ==
    /\ pc = "idle"
    /\ get_uncategorized_expenses(expenses) # {}
    /\ pc' = "categorize"
    /\ queue' = OrderByDate(get_uncategorized_expenses(expenses))
    /\ lastImport' = NoImport
    /\ UNCHANGED <<accounts, mainAccts, balance, categories, expenses, catRules, xferRules,
                   mark>>
    /\ UNCHANGED <<matchVars, sessVars, tuiVars>>

CategorizeAutoTransfer ==
    /\ pc = "categorize"
    /\ queue # <<>>
    /\ MainOf(Current) # None
    /\ AutoOther(Current) # None
    /\ MarkTransfer(Current, AutoOther(Current), "categorize-auto")
    /\ queue' = Tail(queue)
    /\ UNCHANGED <<accounts, mainAccts, categories, catRules, xferRules, pc, lastImport>>
    /\ UNCHANGED <<matchVars, sessVars, tuiVars>>

\* a variant that saves the matched pattern again as a rule of the matched category
CategorizeAutoCategoryLearns ==
    /\ pc = "categorize"
    /\ queue # <<>>
    /\ MainOf(Current) = None \/ AutoOther(Current) = None
    /\ AutoCategory(Current) # None
    /\ expenses' = update_expense_category(expenses, Current, AutoCategory(Current))
    /\ catRules' = add_category_indicator(catRules, Current.description,
                                          AutoCategory(Current), {}, {})
    /\ queue' = Tail(queue)
    /\ UNCHANGED <<accounts, mainAccts, balance, categories, xferRules, pc,
                   mark, lastImport>>
    /\ UNCHANGED <<matchVars, sessVars, tuiVars>>

CategorizeAutoCategory ==
    /\ pc = "categorize"
    /\ queue # <<>>
    /\ MainOf(Current) = None \/ AutoOther(Current) = None
    /\ AutoCategory(Current) # None
    /\ expenses' = update_expense_category(expenses, Current, AutoCategory(Current))
    /\ queue' = Tail(queue)
    /\ UNCHANGED <<accounts, mainAccts, balance, categories, catRules, xferRules, pc,
                   mark, lastImport>>
    /\ UNCHANGED <<matchVars, sessVars, tuiVars>>

\* the loop reaches select_category
AtPrompt ==
    /\ pc = "categorize"
    /\ queue # <<>>
    /\ MainOf(Current) = None \/ AutoOther(Current) = None
    /\ AutoCategory(Current) = None

\* choice 0; an empty name in create_new_category; cancel (or no other account) in
\* select_transfer_target; anything but 'y' at the delete confirmation
CategorizeSkip ==
    /\ AtPrompt
    /\ queue' = Tail(queue)
    /\ UNCHANGED <<accounts, mainAccts, balance, categories, expenses, catRules, xferRules,
                   pc, mark, lastImport>>
    /\ UNCHANGED <<matchVars, sessVars, tuiVars>>

\* ask_for_pattern's answers: no pattern, or a pattern and the two y/N answers
PatternAnswers ==
    {<<>>} \cup
    {<<[pattern |-> p, include_amount |-> a, match_type |-> c]>> :
        p \in Patterns, a \in BOOLEAN, c \in BOOLEAN}

\* (pattern, amount, is_credit) as ask_for_pattern returns it
PatternResult(e, ans) ==
    [pattern |-> ans.pattern,
     amount |-> IF ans.include_amount THEN {e.amount} ELSE {},
     is_credit |-> IF ans.match_type THEN {e.is_credit} ELSE {}]

\* a category picked from the list, or made by create_new_category; then ask_for_pattern,
\* which the user may leave with EOF or Ctrl-C (interrupt)
CategorizeManualCategory(category, answer, interrupt) ==
    /\ AtPrompt
    /\ IF categories = {} THEN category \in NewCategoryNames
       ELSE category \in categories \cup (NewCategoryNames \ categories)
    /\ categories' = categories \cup {category}
    /\ expenses' = update_expense_category(expenses, Current, category)
    /\ IF interrupt
       THEN /\ answer = <<>>
            /\ pc' = "idle"
            /\ queue' = <<>>
            /\ UNCHANGED catRules
       ELSE /\ pc' = pc
            /\ queue' = Tail(queue)
            /\ IF answer = <<>> THEN UNCHANGED catRules
               ELSE /\ Len(catRules) < MaxRules
                    /\ LET r == PatternResult(Current, answer[1])
                       IN  catRules' = add_category_indicator(catRules, r.pattern, category,
                                                              r.amount, r.is_credit)
    /\ UNCHANGED <<accounts, mainAccts, balance, xferRules, mark, lastImport>>
    /\ UNCHANGED <<matchVars, sessVars, tuiVars>>

\* 'TRANSFER', an account picked in select_transfer_target, then ask_for_transfer_pattern
CategorizeManualTransfer(other, answer, interrupt) ==
    /\ AtPrompt
    /\ categories # {}
    /\ MainOf(Current) # None
    /\ other \in accounts \ {MainOf(Current)}
    /\ MarkTransfer(Current, other, "categorize")
    /\ IF interrupt
       THEN /\ answer = <<>>
            /\ pc' = "idle"
            /\ queue' = <<>>
            /\ UNCHANGED xferRules
       ELSE /\ pc' = pc
            /\ queue' = Tail(queue)
            /\ IF answer = <<>> THEN UNCHANGED xferRules
               ELSE /\ Len(xferRules) < MaxRules
                    /\ xferRules' = add_transfer_indicator(
                                        xferRules, answer[1],
                                        ActualSource(Current, MainOf(Current), other),
                                        ActualTarget(Current, MainOf(Current), other))
    /\ UNCHANGED <<accounts, mainAccts, categories, catRules, lastImport>>
    /\ UNCHANGED <<matchVars, sessVars, tuiVars>>

\* 'DELETE', confirmed with 'y'
CategorizeDelete ==
    /\ AtPrompt
    /\ categories # {}
    /\ expenses' = delete_expense(expenses, Current)
    /\ mark' = [mark EXCEPT ![Current.id] = NoMark]
    /\ queue' = Tail(queue)
    /\ UNCHANGED <<accounts, mainAccts, balance, categories, catRules, xferRules, pc,
                   lastImport>>
    /\ UNCHANGED <<matchVars, sessVars, tuiVars>>

\* EOF or Ctrl-C at the select_category, select_transfer_target or delete prompt
CategorizeInterrupt ==
    /\ AtPrompt
    /\ pc' = "idle"
    /\ queue' = <<>>
    /\ UNCHANGED <<accounts, mainAccts, balance, categories, expenses, catRules, xferRules,
                   mark, lastImport>>
    /\ UNCHANGED <<matchVars, sessVars, tuiVars>>

CategorizeReturn ==
    /\ pc = "categorize"
    /\ queue = <<>>
    /\ pc' = "idle"
    /\ UNCHANGED <<accounts, mainAccts, balance, categories, expenses, catRules, xferRules,
                   queue, mark, lastImport>>
    /\ UNCHANGED <<matchVars, sessVars, tuiVars>>

-----------------------------------------------------------------------------
(* tui/screens/transactions.py: the actions on the selected transaction *)

\* a variant without the `if expense.is_transfer` return
action_categorize_unguarded(e, category) ==
    /\ pc = "idle"
    /\ e \in expenses
    /\ category \in categories
    /\ expenses' = update_expense_category(expenses, e, category)
    /\ lastImport' = NoImport
    /\ UNCHANGED <<accounts, mainAccts, balance, categories, catRules, xferRules, pc, queue,
                   mark>>
    /\ UNCHANGED <<matchVars, sessVars, tuiVars>>

\* action_categorize and its handle_category callback
action_categorize(e, category) ==
    /\ pc = "idle"
    /\ e \in expenses
    /\ ~e.is_transfer
    /\ category \in categories
    /\ expenses' = update_expense_category(expenses, e, category)
    /\ lastImport' = NoImport
    /\ UNCHANGED <<accounts, mainAccts, balance, categories, catRules, xferRules, pc, queue,
                   mark>>
    /\ UNCHANGED <<matchVars, sessVars, tuiVars>>

\* what EditTransactionModal hands back: a changed amount, a changed description, or both
EditChanges(e) ==
    {ch \in [amount : {{}} \cup {{a} : a \in Amounts \ {e.amount}},
             description : {{}} \cup {{d} : d \in Descriptions \ {e.description}}] :
        ch.amount # {} \/ ch.description # {}}

\* action_edit and its handle_edit callback
action_edit(e, changes) ==
    /\ pc = "idle"
    /\ e \in expenses
    /\ changes \in EditChanges(e)
    /\ expenses' = update_expense(expenses, e, changes.amount, changes.description, {})
    /\ lastImport' = NoImport
    /\ UNCHANGED <<accounts, mainAccts, balance, categories, catRules, xferRules, pc, queue,
                   mark>>
    /\ UNCHANGED <<matchVars, sessVars, tuiVars>>

\* action_delete and its handle_confirm callback
action_delete(e) ==
    /\ pc = "idle"
    /\ e \in expenses
    /\ expenses' = delete_expense(expenses, e)
    /\ mark' = [mark EXCEPT ![e.id] = NoMark]
    /\ lastImport' = NoImport
    /\ UNCHANGED <<accounts, mainAccts, balance, categories, catRules, xferRules, pc, queue>>
    /\ UNCHANGED <<matchVars, sessVars, tuiVars>>

-----------------------------------------------------------------------------
(* expense_tracker.py: search-delete and set-balance; database.py update_account_balance *)

\* the selected and confirmed rows are deleted one by one
search_and_delete(to_delete) ==
    /\ pc = "idle"
    /\ to_delete # {}
    /\ to_delete \subseteq expenses
    /\ expenses' = expenses \ to_delete
    /\ mark' = [i \in DOMAIN mark |->
                   IF \E e \in to_delete : e.id = i THEN NoMark ELSE mark[i]]
    /\ lastImport' = NoImport
    /\ UNCHANGED <<accounts, mainAccts, balance, categories, catRules, xferRules, pc, queue>>
    /\ UNCHANGED <<matchVars, sessVars, tuiVars>>

\* f"Balance adjustment for {account.name}"
AdjustmentDescription(account) == <<"B", "a", "l", account>>

\* the adjustment transaction both set-balance paths add
AddAdjustment(date, account, difference) ==
    /\ Cardinality(expenses) < MaxExpenses
    /\ categories' = categories \cup {"Inserted"}
    /\ expenses' = add_expense(expenses, date, AdjustmentDescription(account), Abs(difference),
                               difference > 0, "Inserted", "", account, FALSE, None)

\* the CLI command: the current balance is read from Account.balance
set_balance(account, new_balance, date) ==
    /\ pc = "idle"
    /\ account \in accounts
    /\ new_balance - balance[account] # 0
    /\ AddAdjustment(date, account, new_balance - balance[account])
    /\ lastImport' = NoImport
    /\ UNCHANGED <<accounts, mainAccts, balance, catRules, xferRules, pc, queue, mark>>
    /\ UNCHANGED <<matchVars, sessVars, tuiVars>>

\* the Database method: the current balance is get_account_balance
update_account_balance(account, new_balance, today) ==
    /\ pc = "idle"
    /\ account \in accounts
    /\ new_balance - get_account_balance(expenses, account) # 0
    /\ AddAdjustment(today, account, new_balance - get_account_balance(expenses, account))
    /\ lastImport' = NoImport
    /\ UNCHANGED <<accounts, mainAccts, balance, catRules, xferRules, pc, queue, mark>>
    /\ UNCHANGED <<matchVars, sessVars, tuiVars>>

\* database.py clear_all_transactions(self): it takes no argument, so a call with the
\* keyword reset_balances raises TypeError before a row is touched
clear_all_transactions(rows, with_keyword) ==
    IF with_keyword THEN [raised |-> TRUE, rows |-> rows] ELSE [raised |-> FALSE, rows |-> {}]

\* answers at the two confirmations of clear-transactions
ClearConfirm1 == {"DELETE", "delete"}
ClearConfirm2 == {"yes", "no"}

\* the clear-transactions command: the store it leaves and whether it reported an error
ClearOutcome(confirm1, confirm2) ==
    IF confirm1 # "DELETE" \/ confirm2 # "yes"
    THEN [expenses |-> expenses, balance |-> balance, error |-> FALSE]
    ELSE LET r == clear_all_transactions(expenses, TRUE)
         IN  [expenses |-> r.rows, balance |-> balance, error |-> r.raised]

clear_transactions(confirm1, confirm2) ==
    /\ pc = "idle"
    /\ expenses # {}
    /\ expenses' = ClearOutcome(confirm1, confirm2).expenses
    /\ balance' = ClearOutcome(confirm1, confirm2).balance
    /\ mark' = [i \in DOMAIN mark |->
                   IF \E e \in expenses' : e.id = i THEN mark[i] ELSE NoMark]
    /\ lastImport' = NoImport
    /\ UNCHANGED <<accounts, mainAccts, categories, catRules, xferRules, pc, queue>>
    /\ UNCHANGED <<matchVars, sessVars, tuiVars>>

-----------------------------------------------------------------------------
(* The ledger: every command of the CLI and every action of the TUI *)

Next ==
    \/ setup_categories
    \/ \E batch \in Batches : Import(batch)
    \/ CategorizeBegin
    \/ CategorizeAutoTransfer
    \/ CategorizeAutoCategory
    \/ CategorizeSkip
    \/ \E category \in DefaultCategories \cup NewCategoryNames, interrupt \in BOOLEAN :
          \E answer \in PatternAnswers :
             CategorizeManualCategory(category, answer, interrupt)
    \/ \E other \in AccountNames, interrupt \in BOOLEAN :
          \E answer \in {<<>>} \cup {<<p>> : p \in Patterns} :
             CategorizeManualTransfer(other, answer, interrupt)
    \/ CategorizeDelete
    \/ CategorizeInterrupt
    \/ CategorizeReturn
    \/ \E e \in expenses, category \in categories : action_categorize(e, category)
    \/ \E e \in expenses : \E changes \in EditChanges(e) : action_edit(e, changes)
    \/ \E e \in expenses : action_delete(e)
    \/ \E to_delete \in SUBSET expenses : search_and_delete(to_delete)
    \/ \E account \in accounts, new_balance \in TargetBalances, date \in Dates :
          set_balance(account, new_balance, date)
    \/ \E account \in accounts, new_balance \in TargetBalances, today \in Dates :
          update_account_balance(account, new_balance, today)
    \/ \E confirm1 \in ClearConfirm1, confirm2 \in ClearConfirm2 :
          clear_transactions(confirm1, confirm2)

Spec == Init /\ [][Next]_vars

-----------------------------------------------------------------------------
(* Import runs: import_transactions called again and again, with what each call returned *)

\* database.py add_account, as the add-account command calls it
add_account(name, is_main) ==
    /\ pc = "idle"
    /\ name \notin accounts
    /\ accounts' = accounts \cup {name}
    /\ mainAccts' = IF is_main THEN (mainAccts \ {get_main_account}) \cup {name} ELSE mainAccts
    /\ lastImport' = NoImport
    /\ UNCHANGED <<balance, categories, expenses, catRules, xferRules, pc, queue, mark>>
    /\ UNCHANGED <<matchVars, sessVars, tuiVars>>

\* the import command, with (imported, skipped) and the fate of every record kept
ImportRecorded(batch) == import_transactions(batch, MaxImportRows, TRUE)

NextImport ==
    \/ \E batch \in ImportBatches : ImportRecorded(batch)
    \/ \E name \in {"Main"}, is_main \in BOOLEAN : add_account(name, is_main)
    \/ \E e \in expenses : action_delete(e)

SpecImport == Init /\ [][NextImport]_vars

-----------------------------------------------------------------------------
(* The account commands next to the ledger: add-account, delete-account, and the
   Database method set_main_account, with imports and transfers marked by hand (no
   pattern is saved, so no rule ever matches) *)

\* a variant that sets the flag and leaves the present main account as it is
set_main_account_keeps_old(account) ==
    /\ pc = "idle"
    /\ account \in accounts
    /\ mainAccts' = mainAccts \cup {account}
    /\ lastImport' = NoImport
    /\ UNCHANGED <<accounts, balance, categories, expenses, catRules, xferRules, pc, queue,
                   mark>>
    /\ UNCHANGED <<matchVars, sessVars, tuiVars>>

\* database.py set_main_account: the first main account found is unset, then the flag is set
set_main_account(account) ==
    /\ pc = "idle"
    /\ account \in accounts
    /\ mainAccts' = (mainAccts \ {get_main_account}) \cup {account}
    /\ lastImport' = NoImport
    /\ UNCHANGED <<accounts, balance, categories, expenses, catRules, xferRules, pc, queue,
                   mark>>
    /\ UNCHANGED <<matchVars, sessVars, tuiVars>>

\* session.delete(account) on flush: the rows of Account.transfers_to lose their
\* target_account (the relationship has no delete cascade, so the foreign key is set
\* to NULL); a transfer rule that names the account is left pointing at no account
\* a variant that leaves the rows as they are
DetachNothing(rows, account) == rows

Detach(rows, account) ==
    {IF e.target = account THEN [e EXCEPT !.target = None] ELSE e : e \in rows}

DetachRules(rules, account) ==
    [i \in 1..Len(rules) |->
        [rules[i] EXCEPT !.source = IF @ = account THEN None ELSE @,
                         !.target = IF @ = account THEN None ELSE @]]

\* database.py delete_account: what it returns and what the store holds afterwards
delete_account(account) ==
    IF account \in mainAccts \/ (\E e \in expenses : e.account = account)
    THEN [returned |-> FALSE, accounts |-> accounts, balance |-> balance,
          expenses |-> expenses, xferRules |-> xferRules]
    ELSE [returned |-> TRUE, accounts |-> accounts \ {account},
          balance |-> [balance EXCEPT ![account] = 0],
          expenses |-> Detach(expenses, account),
          xferRules |-> DetachRules(xferRules, account)]

\* the delete-account command, confirmed with 'y'
DeleteAccount(account) ==
    /\ pc = "idle"
    /\ account \in accounts
    /\ LET r == delete_account(account)
       IN  /\ accounts' = r.accounts
           /\ balance' = r.balance
           /\ expenses' = r.expenses
           /\ xferRules' = r.xferRules
    /\ lastImport' = NoImport
    /\ UNCHANGED <<mainAccts, categories, catRules, pc, queue, mark>>
    /\ UNCHANGED <<matchVars, sessVars, tuiVars>>

NextAccounts ==
    \/ setup_categories
    \/ \E batch \in Batches : Import(batch)
    \/ CategorizeBegin
    \/ CategorizeSkip
    \/ \E other \in AccountNames, interrupt \in BOOLEAN :
          CategorizeManualTransfer(other, <<>>, interrupt)
    \/ CategorizeInterrupt
    \/ CategorizeReturn
    \/ \E name \in AccountNames, is_main \in BOOLEAN : add_account(name, is_main)
    \/ \E account \in AccountNames : set_main_account(account)
    \/ \E account \in AccountNames : DeleteAccount(account)

SpecAccounts == Init /\ [][NextAccounts]_vars

-----------------------------------------------------------------------------
(* tui/screens/transactions.py EditTransactionModal: what the user types into the two
   inputs, and what on_button_pressed makes of it *)

\* texts typed into the amount input
AmountTexts == {"0.01", "0.03", "0", "-0.01", "abc"}
\* texts typed into the description input, stripped
DescriptionTexts == {<<>>} \cup Descriptions

\* float(amount_input.value.strip()), in cents: the value, or nothing for a ValueError
ParseFloat(text) ==
    CASE text = "0.01" -> {1}
      [] text = "0.03" -> {3}
      [] text = "0" -> {0}
      [] text = "-0.01" -> {-1}
      [] OTHER -> {}

\* the dict on_button_pressed dismisses with on Save
EditResult(e, amount_text, description_text) ==
    [amount |-> {a \in ParseFloat(amount_text) : a # e.amount},
     description |-> IF description_text # <<>> /\ description_text # e.description
                     THEN {description_text} ELSE {}]

\* action_edit with the modal's inputs: handle_edit runs for a non-empty dict
EditTyped(e, amount_text, description_text) ==
    LET changes == EditResult(e, amount_text, description_text)
    IN  /\ pc = "idle"
        /\ e \in expenses
        /\ changes.amount # {} \/ changes.description # {}
        /\ expenses' = update_expense(expenses, e, changes.amount, changes.description, {})
        /\ lastImport' = NoImport
        /\ UNCHANGED <<accounts, mainAccts, balance, categories, catRules, xferRules, pc,
                       queue, mark>>
        /\ UNCHANGED <<matchVars, sessVars, tuiVars>>

NextEdit ==
    \/ setup_categories
    \/ \E batch \in Batches : Import(batch)
    \/ \E e \in expenses, amount_text \in AmountTexts, description_text \in DescriptionTexts :
          EditTyped(e, amount_text, description_text)
    \/ \E e \in expenses, category \in categories : action_categorize(e, category)
    \/ \E e \in expenses : action_delete(e)
    \/ \E account \in accounts, new_balance \in TargetBalances, date \in Dates :
          set_balance(account, new_balance, date)
    \/ \E account \in accounts, new_balance \in TargetBalances, today \in Dates :
          update_account_balance(account, new_balance, today)

SpecEdit == Init /\ [][NextEdit]_vars

-----------------------------------------------------------------------------
(* The matcher on its own: rules added by add_category_indicator, then looked up *)

\* "ZKB VISA PURCHASE" and another booking text, one letter per word
MatchDescriptions == { <<"Z", "v", "p">>, <<"k", "p">> }
\* patterns as typed, in either case: "zkb", "ZKB visa", "purchase"
MatchPatterns == { <<"z">>, <<"Z", "v">>, <<"p">> }
\* amounts of the transactions looked up and of the rules, in cents: 0.01, 0.02 and 0.03
\* against rules for 0.01 and 0.04
MatchAmounts == {1, 2, 3}
MatchRuleAmounts == {1, 4}
MatchCategories == {"Food", "Misc"}

MatchAddRule(pattern, category, amount, is_credit) ==
    /\ Len(mRules) < MaxMatchRules
    /\ mRules' = add_category_indicator(mRules, pattern, category, amount, is_credit)
    /\ mTx' = [description |-> <<>>, amount |-> 0, is_credit |-> FALSE]
    /\ mResult' = None
    /\ UNCHANGED <<accounts, mainAccts, balance, categories, expenses, catRules, xferRules,
                   pc, queue, mark, lastImport, sessVars, tuiVars>>

MatchLookup(description, amount, is_credit) ==
    /\ mTx' = [description |-> description, amount |-> amount, is_credit |-> is_credit]
    /\ mResult' = find_category_by_description(mRules, description, amount, is_credit)
    /\ UNCHANGED mRules
    /\ UNCHANGED <<accounts, mainAccts, balance, categories, expenses, catRules, xferRules,
                   pc, queue, mark, lastImport, sessVars, tuiVars>>

NextMatch ==
    \/ \E pattern \in MatchPatterns, category \in MatchCategories,
          amount \in {{}} \cup {{a} : a \in MatchRuleAmounts},
          is_credit \in {{}, {TRUE}} :
          MatchAddRule(pattern, category, amount, is_credit)
    \/ \E description \in MatchDescriptions, amount \in MatchAmounts, is_credit \in BOOLEAN :
          MatchLookup(description, amount, is_credit)

SpecMatch == Init /\ [][NextMatch]_vars

-----------------------------------------------------------------------------
(* The transfer matcher on its own: add_transfer_indicator and
   find_transfer_by_description, with mRules as the TransferIndicator table *)

TransferAddRule(pattern, source_account, target_account) ==
    /\ Len(mRules) < MaxTransferRules
    /\ mRules' = add_transfer_indicator(mRules, pattern, source_account, target_account)
    /\ mTx' = [description |-> <<>>, source_account |-> None]
    /\ mResult' = None
    /\ UNCHANGED <<accounts, mainAccts, balance, categories, expenses, catRules, xferRules,
                   pc, queue, mark, lastImport, sessVars, tuiVars>>

TransferLookup(description, source_account) ==
    /\ mTx' = [description |-> description, source_account |-> source_account]
    /\ mResult' = find_transfer_by_description(mRules, description, source_account)
    /\ UNCHANGED mRules
    /\ UNCHANGED <<accounts, mainAccts, balance, categories, expenses, catRules, xferRules,
                   pc, queue, mark, lastImport, sessVars, tuiVars>>

NextTransfer ==
    \/ \E pattern \in MatchPatterns, source_account \in AccountNames :
          \E target_account \in AccountNames \ {source_account} :
             TransferAddRule(pattern, source_account, target_account)
    \/ \E description \in MatchDescriptions, source_account \in AccountNames :
          TransferLookup(description, source_account)

SpecTransfer == Init /\ [][NextTransfer]_vars

-----------------------------------------------------------------------------
(* Letter case: a category rule store and a transfer rule store filled with patterns as
   the user types them, and looked up with descriptions in any letter case *)

\* at most this many rules in each of the two stores
MaxCaseRules == 2

\* the pattern argument of the two add methods: any str, the empty one too
CasePatterns ==
    { <<>>, <<"z">>, <<"Z">>, <<"z", "V">>, <<"Z", "v">>, <<"k", "P">>, <<"p", "z">> }
CaseDescriptions == { <<"Z", "v", "p">>, <<"z", "V", "P">>, <<"Z", "V", "P">>, <<"k", "p">>,
                      <<"K", "p">> }
CaseSource == "Main"
CaseTarget == "Revolut"

\* mRules holds the two stores and, next to them, the patterns as they were typed
NoCaseRules == [category |-> <<>>, transfer |-> <<>>, typedCategory |-> <<>>,
                typedTransfer |-> <<>>]
CaseRules == IF mRules = <<>> THEN NoCaseRules ELSE mRules

\* session.add; try: session.commit() / except: session.rollback(): the store after the
\* call and whether the call raised, for a commit that succeeds or fails
add_indicator_commit(before, after, commit_ok) ==
    [rules |-> IF commit_ok THEN after ELSE before, raised |-> FALSE]

\* what the caller sees of an add: categorize_expenses prints "saved" in the statement
\* after the call, which runs iff the call did not raise
CaseOutcome(before, r) ==
    [stored |-> r.rules # before, raised |-> r.raised, reported |-> ~r.raised]

CaseAddCategoryRule(pattern, commit_ok) ==
    /\ Len(CaseRules.category) < MaxCaseRules
    /\ LET r == add_indicator_commit(
                    CaseRules.category,
                    add_category_indicator(CaseRules.category, pattern, "Food", {}, {}),
                    commit_ok)
       IN  /\ mRules' = [CaseRules EXCEPT
                            !.category = r.rules,
                            !.typedCategory = IF commit_ok THEN Append(@, pattern) ELSE @]
           /\ mResult' = CaseOutcome(CaseRules.category, r)
    /\ mTx' = [description |-> <<>>, added |-> pattern]
    /\ UNCHANGED <<accounts, mainAccts, balance, categories, expenses, catRules, xferRules,
                   pc, queue, mark, lastImport, sessVars, tuiVars>>

CaseAddTransferRule(pattern, commit_ok) ==
    /\ Len(CaseRules.transfer) < MaxCaseRules
    /\ LET r == add_indicator_commit(
                    CaseRules.transfer,
                    add_transfer_indicator(CaseRules.transfer, pattern, CaseSource,
                                           CaseTarget),
                    commit_ok)
       IN  /\ mRules' = [CaseRules EXCEPT
                            !.transfer = r.rules,
                            !.typedTransfer = IF commit_ok THEN Append(@, pattern) ELSE @]
           /\ mResult' = CaseOutcome(CaseRules.transfer, r)
    /\ mTx' = [description |-> <<>>, added |-> pattern]
    /\ UNCHANGED <<accounts, mainAccts, balance, categories, expenses, catRules, xferRules,
                   pc, queue, mark, lastImport, sessVars, tuiVars>>

CaseLookup(description) ==
    /\ mTx' = [description |-> description]
    /\ mResult' = [category |-> find_category_by_description(CaseRules.category, description,
                                                             1, FALSE),
                   transfer |-> find_transfer_by_description(CaseRules.transfer, description,
                                                             CaseSource)]
    /\ UNCHANGED mRules
    /\ UNCHANGED <<accounts, mainAccts, balance, categories, expenses, catRules, xferRules,
                   pc, queue, mark, lastImport, sessVars, tuiVars>>

NextCase ==
    \/ \E pattern \in CasePatterns, commit_ok \in BOOLEAN :
          CaseAddCategoryRule(pattern, commit_ok)
    \/ \E pattern \in CasePatterns, commit_ok \in BOOLEAN :
          CaseAddTransferRule(pattern, commit_ok)
    \/ \E description \in CaseDescriptions : CaseLookup(description)

SpecCase == Init /\ [][NextCase]_vars

-----------------------------------------------------------------------------
(* The Database methods on their own: add_expense, update_expense_category,
   update_expense and delete_expense called with any arguments *)

DbAddExpense(date, description, amount, is_credit, category, account, is_transfer, target_account) ==
    /\ pc = "idle"
    /\ Cardinality(expenses) < MaxDatabaseRows
    /\ category \in categories \cup {None}
    /\ account \in accounts
    /\ target_account \in accounts \cup {None}
    /\ expenses' = add_expense(expenses, date, description, amount, is_credit, category, "",
                               account, is_transfer, target_account)
    /\ UNCHANGED <<accounts, mainAccts, balance, categories, catRules, xferRules, pc, queue,
                   mark, lastImport>>
    /\ UNCHANGED <<matchVars, sessVars, tuiVars>>

DbUpdateExpenseCategory(e, category) ==
    /\ pc = "idle"
    /\ e \in expenses
    /\ category \in categories
    /\ expenses' = update_expense_category(expenses, e, category)
    /\ UNCHANGED <<accounts, mainAccts, balance, categories, catRules, xferRules, pc, queue,
                   mark, lastImport>>
    /\ UNCHANGED <<matchVars, sessVars, tuiVars>>

DbUpdateExpense(e, new_amount, new_description, new_category) ==
    /\ pc = "idle"
    /\ e \in expenses
    /\ new_category \subseteq categories
    /\ expenses' = update_expense(expenses, e, new_amount, new_description, new_category)
    /\ UNCHANGED <<accounts, mainAccts, balance, categories, catRules, xferRules, pc, queue,
                   mark, lastImport>>
    /\ UNCHANGED <<matchVars, sessVars, tuiVars>>

DbDeleteExpense(e) ==
    /\ pc = "idle"
    /\ e \in expenses
    /\ expenses' = delete_expense(expenses, e)
    /\ UNCHANGED <<accounts, mainAccts, balance, categories, catRules, xferRules, pc, queue,
                   mark, lastImport>>
    /\ UNCHANGED <<matchVars, sessVars, tuiVars>>

NextDatabase ==
    \/ setup_categories
    \/ \E date \in Dates, description \in Descriptions, amount \in Amounts,
          is_credit \in BOOLEAN, category \in DefaultCategories \cup {None},
          account \in AccountNames, is_transfer \in BOOLEAN,
          target_account \in AccountNames \cup {None} :
          DbAddExpense(date, description, amount, is_credit, category, account, is_transfer,
                       target_account)
    \/ \E e \in expenses, category \in categories : DbUpdateExpenseCategory(e, category)
    \/ \E e \in expenses :
          \E new_amount \in {{}} \cup {{a} : a \in Amounts},
             new_description \in {{}} \cup {{d} : d \in Descriptions},
             new_category \in {{}} \cup {{c} : c \in DefaultCategories} :
             DbUpdateExpense(e, new_amount, new_description, new_category)
    \/ \E e \in expenses : DbDeleteExpense(e)

SpecDatabase == Init /\ [][NextDatabase]_vars

-----------------------------------------------------------------------------
(* categorizer.py categorize_expenses, statement by statement: the ledger variables hold
   what is committed, `work` what the open SQLAlchemy session holds, and `at` the
   statement the loop has reached; EOF or Ctrl-C ends the run, and main() closes the
   session without a commit (expense_tracker.py, finally: db.close()) *)

\* the positions where the loop waits in input()
InputPositions ==
    {"select_category", "create_category", "select_transfer_target", "transfer_pattern",
     "confirm_delete", "ask_pattern"}

AtPos(pos) == [AtIdle EXCEPT !.pos = pos]
SessCurrent == Row(work.expenses, Head(queue))
SessFrame == UNCHANGED <<accounts, mainAccts, lastImport, matchVars, tuiVars>>

\* session.commit(): what the session holds becomes the stored state
SessCommit(w) ==
    /\ expenses' = w.expenses
    /\ balance' = w.balance

\* `continue`: the loop takes the next expense
SessContinue ==
    /\ at' = AtPos("top")
    /\ queue' = Tail(queue)

\* skipped_count += 1; continue
SessSkip ==
    /\ counts' = [counts EXCEPT !.skipped = @ + 1]
    /\ SessContinue
    /\ UNCHANGED <<balance, categories, expenses, catRules, xferRules, pc, mark, work>>

\* get_uncategorized_expenses, the two counters, the start of the for loop
SessBegin ==
    /\ pc = "idle"
    /\ at.pos = "idle"
    /\ get_uncategorized_expenses(expenses) # {}
    /\ pc' = "categorize"
    /\ queue' = OrderByDate(get_uncategorized_expenses(expenses))
    /\ at' = AtPos("top")
    /\ work' = [expenses |-> expenses, balance |-> balance]
    /\ counts' = NoCounts
    /\ lastImport' = NoImport
    /\ UNCHANGED <<accounts, mainAccts, balance, categories, expenses, catRules, xferRules,
                   mark, matchVars, tuiVars>>

\* the head of the loop body: the transfer rules, then the category rules, then
\* select_category (which goes to create_new_category when there is no category)
SessTop ==
    /\ at.pos = "top"
    /\ queue # <<>>
    /\ LET e == SessCurrent
       IN  IF MainOf(e) # None /\ AutoOther(e) # None
           THEN /\ WithinBalanceBound(AdjustedBalance(work.balance, e, MainOf(e),
                                                      AutoOther(e)))
                /\ at' = [AtPos("set_flag") EXCEPT !.other = AutoOther(e)]
           ELSE IF AutoCategory(e) # None
                THEN at' = [AtPos("set_category") EXCEPT !.category = AutoCategory(e)]
                ELSE IF categories = {}
                     THEN at' = AtPos("create_category")
                     ELSE at' = AtPos("select_category")
    /\ UNCHANGED <<balance, categories, expenses, catRules, xferRules, pc, queue, mark,
                   work, counts>>
    /\ SessFrame

\* the answer at select_category's prompt
SessSelectCategory(choice) ==
    /\ at.pos = "select_category"
    /\ choice \in {"0", "NEW", "TRANSFER", "DELETE"} \cup categories
    /\ IF choice = "0"
          \/ (choice = "TRANSFER" /\ (MainOf(SessCurrent) = None
                                      \/ accounts \ {MainOf(SessCurrent)} = {}))
       THEN SessSkip
       ELSE /\ at' = IF choice = "NEW" THEN AtPos("create_category")
                     ELSE IF choice = "TRANSFER" THEN AtPos("select_transfer_target")
                     ELSE IF choice = "DELETE" THEN AtPos("confirm_delete")
                     ELSE [AtPos("set_category") EXCEPT !.category = choice,
                                                        !.manual = TRUE]
            /\ UNCHANGED <<balance, categories, expenses, catRules, xferRules, pc, queue,
                           mark, work, counts>>
    /\ SessFrame

\* create_new_category: an empty name returns None, any other is stored by add_category
SessCreateCategory(name) ==
    /\ at.pos = "create_category"
    /\ name \in {""} \cup (NewCategoryNames \ categories)
    /\ IF name = ""
       THEN SessSkip
       ELSE /\ categories' = categories \cup {name}
            /\ SessCommit(work)
            /\ at' = [AtPos("set_category") EXCEPT !.category = name, !.manual = TRUE]
            /\ UNCHANGED <<catRules, xferRules, pc, queue, mark, work, counts>>
    /\ SessFrame

\* update_expense_category: expense.category = category
SessSetCategory ==
    /\ at.pos = "set_category"
    /\ work' = [work EXCEPT !.expenses = update_expense_category(@, SessCurrent,
                                                                 at.category)]
    /\ at' = [at EXCEPT !.pos = "commit_category"]
    /\ UNCHANGED <<balance, categories, expenses, catRules, xferRules, pc, queue, mark,
                   counts>>
    /\ SessFrame

\* update_expense_category: session.commit(); categorized_count += 1
SessCommitCategory ==
    /\ at.pos = "commit_category"
    /\ SessCommit(work)
    /\ counts' = [counts EXCEPT !.categorized = @ + 1]
    /\ IF at.manual
       THEN at' = [at EXCEPT !.pos = "ask_pattern"] /\ UNCHANGED queue
       ELSE SessContinue
    /\ UNCHANGED <<categories, catRules, xferRules, pc, mark, work>>
    /\ SessFrame

\* ask_for_pattern and, for a pattern, add_category_indicator
SessAskPattern(answer) ==
    /\ at.pos = "ask_pattern"
    /\ answer \in PatternAnswers
    /\ IF answer = <<>>
       THEN UNCHANGED <<balance, expenses, catRules>>
       ELSE /\ Len(catRules) < MaxRules
            /\ LET r == PatternResult(SessCurrent, answer[1])
               IN  catRules' = add_category_indicator(catRules, r.pattern, at.category,
                                                      r.amount, r.is_credit)
            /\ SessCommit(work)
    /\ SessContinue
    /\ UNCHANGED <<categories, xferRules, pc, mark, work, counts>>
    /\ SessFrame

\* the answer at select_transfer_target's prompt: 0, or one of the other accounts
SessSelectTransferTarget(choice) ==
    /\ at.pos = "select_transfer_target"
    /\ choice \in {None} \cup (accounts \ {MainOf(SessCurrent)})
    /\ IF choice = None
       THEN SessSkip
       ELSE /\ WithinBalanceBound(AdjustedBalance(work.balance, SessCurrent,
                                                  MainOf(SessCurrent), choice))
            /\ at' = [AtPos("set_flag") EXCEPT !.other = choice, !.manual = TRUE]
            /\ UNCHANGED <<balance, categories, expenses, catRules, xferRules, pc, queue,
                           mark, work, counts>>
    /\ SessFrame

\* a variant that commits right after the flag is set
SessSetFlagCommits ==
    /\ at.pos = "set_flag"
    /\ work' = [work EXCEPT !.expenses =
                   (@ \ {SessCurrent}) \cup {[SessCurrent EXCEPT !.is_transfer = TRUE]}]
    /\ SessCommit(work')
    /\ at' = [at EXCEPT !.pos = "set_target"]
    /\ UNCHANGED <<categories, catRules, xferRules, pc, queue, mark, counts>>
    /\ SessFrame

\* expense.is_transfer = True
SessSetFlag ==
    /\ at.pos = "set_flag"
    /\ work' = [work EXCEPT !.expenses =
                   (@ \ {SessCurrent}) \cup {[SessCurrent EXCEPT !.is_transfer = TRUE]}]
    /\ at' = [at EXCEPT !.pos = "set_target"]
    /\ UNCHANGED <<balance, categories, expenses, catRules, xferRules, pc, queue, mark,
                   counts>>
    /\ SessFrame

\* expense.target_account = actual_target
SessSetTarget ==
    /\ at.pos = "set_target"
    /\ work' = [work EXCEPT !.expenses =
                   (@ \ {SessCurrent}) \cup
                   {[SessCurrent EXCEPT !.target =
                        ActualTarget(SessCurrent, MainOf(SessCurrent), at.other)]}]
    /\ at' = [at EXCEPT !.pos = "debit_source"]
    /\ UNCHANGED <<balance, categories, expenses, catRules, xferRules, pc, queue, mark,
                   counts>>
    /\ SessFrame

\* actual_source.balance -= expense.amount
SessDebitSource ==
    /\ at.pos = "debit_source"
    /\ work' = [work EXCEPT !.balance[ActualSource(SessCurrent, MainOf(SessCurrent),
                                                   at.other)] = @ - SessCurrent.amount]
    /\ at' = [at EXCEPT !.pos = "credit_target"]
    /\ UNCHANGED <<balance, categories, expenses, catRules, xferRules, pc, queue, mark,
                   counts>>
    /\ SessFrame

\* actual_target.balance += expense.amount
SessCreditTarget ==
    /\ at.pos = "credit_target"
    /\ work' = [work EXCEPT !.balance[ActualTarget(SessCurrent, MainOf(SessCurrent),
                                                   at.other)] = @ + SessCurrent.amount]
    /\ at' = [at EXCEPT !.pos = "commit_transfer"]
    /\ UNCHANGED <<balance, categories, expenses, catRules, xferRules, pc, queue, mark,
                   counts>>
    /\ SessFrame

\* self.db.session.commit(); categorized_count += 1
SessCommitTransfer ==
    /\ at.pos = "commit_transfer"
    /\ SessCommit(work)
    /\ mark' = [mark EXCEPT ![SessCurrent.id] =
                   [how |-> IF at.manual THEN "categorize" ELSE "categorize-auto",
                    resident |-> MainOf(SessCurrent), other |-> at.other,
                    debited |-> ActualSource(SessCurrent, MainOf(SessCurrent), at.other),
                    credited |-> ActualTarget(SessCurrent, MainOf(SessCurrent), at.other)]]
    /\ counts' = [counts EXCEPT !.categorized = @ + 1]
    /\ IF at.manual
       THEN at' = [at EXCEPT !.pos = "transfer_pattern"] /\ UNCHANGED queue
       ELSE SessContinue
    /\ UNCHANGED <<categories, catRules, xferRules, pc, work>>
    /\ SessFrame

\* ask_for_transfer_pattern and, for a pattern, add_transfer_indicator
SessTransferPattern(answer) ==
    /\ at.pos = "transfer_pattern"
    /\ answer \in {<<>>} \cup {<<p>> : p \in Patterns}
    /\ IF answer = <<>>
       THEN UNCHANGED <<balance, expenses, xferRules>>
       ELSE /\ Len(xferRules) < MaxRules
            /\ xferRules' = add_transfer_indicator(
                                xferRules, answer[1],
                                ActualSource(SessCurrent, MainOf(SessCurrent), at.other),
                                ActualTarget(SessCurrent, MainOf(SessCurrent), at.other))
            /\ SessCommit(work)
    /\ SessContinue
    /\ UNCHANGED <<categories, catRules, pc, mark, work, counts>>
    /\ SessFrame

\* a variant that deletes the transaction whatever the answer is
SessConfirmDeleteAlways(confirm) ==
    /\ at.pos = "confirm_delete"
    /\ work' = [work EXCEPT !.expenses = delete_expense(@, SessCurrent)]
    /\ SessCommit(work')
    /\ mark' = [mark EXCEPT ![SessCurrent.id] = NoMark]
    /\ counts' = IF confirm THEN counts ELSE [counts EXCEPT !.skipped = @ + 1]
    /\ SessContinue
    /\ UNCHANGED <<categories, catRules, xferRules, pc>>
    /\ SessFrame

\* the answer at the delete confirmation: 'y' deletes through delete_expense
SessConfirmDelete(confirm) ==
    /\ at.pos = "confirm_delete"
    /\ IF confirm
       THEN /\ work' = [work EXCEPT !.expenses = delete_expense(@, SessCurrent)]
            /\ SessCommit(work')
            /\ mark' = [mark EXCEPT ![SessCurrent.id] = NoMark]
            /\ SessContinue
            /\ UNCHANGED <<categories, catRules, xferRules, pc, counts>>
       ELSE SessSkip
    /\ SessFrame

\* the run is over: the session is closed and what it had not committed is gone
SessClose ==
    /\ pc' = "idle"
    /\ queue' = <<>>
    /\ at' = AtIdle
    /\ work' = NoWork
    /\ counts' = NoCounts
    /\ UNCHANGED <<balance, categories, expenses, catRules, xferRules, mark>>
    /\ SessFrame

\* EOF at a prompt, or Ctrl-C at any statement: the except clause, then main()'s finally
SessInterrupt ==
    /\ pc = "categorize"
    /\ at.pos # "idle"
    /\ SessClose

\* the for loop is exhausted
SessReturn ==
    /\ at.pos = "top"
    /\ queue = <<>>
    /\ SessClose

\* an import between two runs
ImportForSession(batch) == import_transactions(batch, MaxSessionRows, FALSE)

NextSession ==
    \/ setup_categories
    \/ \E batch \in Batches : ImportForSession(batch)
    \/ SessBegin
    \/ SessTop
    \/ \E choice \in {"0", "NEW", "TRANSFER", "DELETE"} \cup DefaultCategories
                     \cup NewCategoryNames :
          SessSelectCategory(choice)
    \/ \E name \in {""} \cup NewCategoryNames : SessCreateCategory(name)
    \/ SessSetCategory
    \/ SessCommitCategory
    \/ \E answer \in PatternAnswers : SessAskPattern(answer)
    \/ \E choice \in {None} \cup AccountNames : SessSelectTransferTarget(choice)
    \/ SessSetFlag
    \/ SessSetTarget
    \/ SessDebitSource
    \/ SessCreditTarget
    \/ SessCommitTransfer
    \/ \E answer \in {<<>>} \cup {<<p>> : p \in Patterns} : SessTransferPattern(answer)
    \/ \E confirm \in BOOLEAN : SessConfirmDelete(confirm)
    \/ SessInterrupt
    \/ SessReturn

SpecSession == Init /\ [][NextSession]_vars

-----------------------------------------------------------------------------
(* The TUI transactions screen: tui/widgets/transaction_list.py and the key bindings of
   tui/screens/transactions.py. The list queries order by date only, so rows of one date
   come in an order the database picks; time passes in ticks of a third of a second *)

\* the statement rows imported before the screen is opened
ListRecords ==
    [date : ImportDates, description : Descriptions, amount : {1}, is_credit : BOOLEAN,
     reference : References]
ListBatches == {<<r>> : r \in ListRecords}
\* what the user types into SearchModal
SearchTerms == { <<"Z">>, <<"o">> }

\* the lists `query.order_by(Expense.date)` can return for the rows: every order of the
\* ids that sorts the dates, descending or ascending
DateOrders(rows, order_desc) ==
    {q \in [1..Cardinality(rows) -> {e.id : e \in rows}] :
        /\ \A i, j \in DOMAIN q : i # j => q[i] # q[j]
        /\ \A i, j \in DOMAIN q :
              i < j => IF order_desc
                       THEN Row(rows, q[i]).date >= Row(rows, q[j]).date
                       ELSE Row(rows, q[i]).date <= Row(rows, q[j]).date}

get_all_expenses(rows, order_desc) == DateOrders(rows, order_desc)

get_uncategorized_list(rows) == DateOrders(get_uncategorized_expenses(rows), FALSE)

\* Expense.description.ilike('%term%'), newest first
search_expenses(rows, term) ==
    DateOrders({e \in rows : IsSubstring(UpperStr(term), UpperStr(e.description))}, TRUE)

\* sorted(expenses, key=lambda e: (e.date, e.id))
SortedByDateAndId(rows) == OrderByDate(rows)

\* what the row at position i of the sorted list does to account_balances[a]
RunningTerm(rows, sorted, i, a) ==
    LET x == Row(rows, sorted[i])
    IN  IF x.account = None THEN 0
        ELSE IF x.is_transfer /\ x.target # None
             THEN (IF x.account = a THEN -x.amount ELSE 0)
                  + (IF x.target = a THEN x.amount ELSE 0)
             ELSE IF x.account # a THEN 0
                  ELSE IF x.is_credit THEN x.amount ELSE -x.amount

RECURSIVE RunningBalance(_, _, _, _)
RunningBalance(rows, sorted, k, a) ==
    IF k = 0 THEN 0
    ELSE RunningBalance(rows, sorted, k - 1, a) + RunningTerm(rows, sorted, k, a)

\* get_expenses_with_balance(expenses, order_desc=True): (expense, balance_after) pairs,
\* computed oldest first and handed back reversed
get_expenses_with_balance(rows, listed) ==
    LET part == {e \in rows : \E i \in DOMAIN listed : listed[i] = e.id}
        sorted == SortedByDateAndId(part)
        n == Len(sorted)
    IN  [i \in 1..n |->
            LET k == n + 1 - i
                x == Row(rows, sorted[k])
            IN  [id |-> x.id,
                 balance_after |-> IF x.account = None THEN 0
                                   ELSE RunningBalance(rows, sorted, k, x.account)]]

\* the lists refresh_transactions can load for the filter
Listed(t, rows) ==
    IF t.filter_mode = "uncategorized" THEN get_uncategorized_list(rows)
    ELSE IF t.filter_mode = "search" /\ t.search_term # <<>>
         THEN search_expenses(rows, t.search_term)
         ELSE get_all_expenses(rows, TRUE)

\* refresh_transactions: clear() (the cursor goes back to the first row), load the list,
\* add one table row per pair of get_expenses_with_balance
Refreshed(t, rows) ==
    {[t EXCEPT !.transactions = q,
               !.rows = get_expenses_with_balance(rows, q),
               !.cursor_row = 0] : q \in Listed(t, rows)}

\* the id that stands for Python's None where a transaction is expected
NoRow == 0

\* get_selected_transaction: the id, or NoRow
get_selected_transaction ==
    IF table.transactions = <<>> THEN NoRow
    ELSE IF 0 <= table.cursor_row /\ table.cursor_row < Len(table.transactions)
         THEN table.transactions[table.cursor_row + 1]
         ELSE NoRow

\* the id of the transaction the table displays on the cursor row, or NoRow
DisplayedAtCursor ==
    IF table.cursor_row < Len(table.rows) THEN table.rows[table.cursor_row + 1].id ELSE NoRow

TuiLedgerFrame ==
    UNCHANGED <<accounts, mainAccts, balance, categories, expenses, catRules, xferRules, pc,
                queue, mark, lastImport, matchVars, sessVars>>

\* the screen is pushed: TransactionsScreen.__init__, TransactionList.on_mount
TuiMount ==
    /\ pc = "idle"
    /\ ~table.mounted
    /\ table' \in Refreshed([NoTable EXCEPT !.mounted = TRUE], expenses)
    /\ screen' = NoScreen
    /\ keys' = NoKeys
    /\ TuiLedgerFrame

\* escape: the screen is popped, its timers go with it
TuiBack ==
    /\ table.mounted
    /\ table' = NoTable
    /\ screen' = NoScreen
    /\ keys' = NoKeys
    /\ TuiLedgerFrame

\* an import while the screen is not open
ImportForList(batch) ==
    /\ ~table.mounted
    /\ import_transactions(batch, MaxListRows, FALSE)

\* u: set_filter_uncategorized
action_filter_uncategorized ==
    /\ table.mounted
    /\ table' \in Refreshed([table EXCEPT !.filter_mode = "uncategorized"], expenses)
    /\ UNCHANGED <<screen, keys>>
    /\ TuiLedgerFrame

\* a: set_filter_all
action_show_all ==
    /\ table.mounted
    /\ table' \in Refreshed([table EXCEPT !.filter_mode = "all", !.search_term = <<>>],
                            expenses)
    /\ UNCHANGED <<screen, keys>>
    /\ TuiLedgerFrame

\* slash and handle_search: an empty term or a cancelled modal changes nothing
action_search(search_term) ==
    /\ table.mounted
    /\ search_term # <<>>
    /\ table' \in Refreshed([table EXCEPT !.filter_mode = "search",
                                          !.search_term = search_term], expenses)
    /\ UNCHANGED <<screen, keys>>
    /\ TuiLedgerFrame

\* c, for the selected transaction, and handle_category with the category chosen
TuiCategorize(category) ==
    /\ table.mounted
    /\ get_selected_transaction # NoRow
    /\ category \in categories
    /\ LET expense == Row(expenses, get_selected_transaction)
       IN  /\ ~expense.is_transfer
           /\ expenses' = update_expense_category(expenses, expense, category)
    /\ table' \in Refreshed(table, expenses')
    /\ UNCHANGED <<accounts, mainAccts, balance, categories, catRules, xferRules, pc, queue,
                   mark, lastImport, matchVars, sessVars, screen, keys>>

\* e, for the selected transaction, and handle_edit with a changed description
TuiEdit(new_description) ==
    /\ table.mounted
    /\ get_selected_transaction # NoRow
    /\ LET expense == Row(expenses, get_selected_transaction)
       IN  /\ new_description # expense.description
           /\ expenses' = update_expense(expenses, expense, {}, {new_description}, {})
    /\ table' \in Refreshed(table, expenses')
    /\ UNCHANGED <<accounts, mainAccts, balance, categories, catRules, xferRules, pc, queue,
                   mark, lastImport, matchVars, sessVars, screen, keys>>

\* d, for the selected transaction, and handle_confirm(True)
TuiDelete ==
    /\ table.mounted
    /\ get_selected_transaction # NoRow
    /\ LET expense == Row(expenses, get_selected_transaction)
       IN  /\ expenses' = delete_expense(expenses, expense)
           /\ mark' = [mark EXCEPT ![expense.id] = NoMark]
    /\ table' \in Refreshed(table, expenses')
    /\ UNCHANGED <<accounts, mainAccts, balance, categories, catRules, xferRules, pc, queue,
                   lastImport, matchVars, sessVars, screen, keys>>

\* DataTable.action_cursor_down / action_cursor_up: the cursor stays inside the table
CursorMoved(t, by) ==
    LET to == t.cursor_row + by
    IN  [t EXCEPT !.cursor_row = IF to < 0 \/ to >= Len(t.rows) THEN @ ELSE to]

\* j
action_nav_down ==
    /\ table.mounted
    /\ screen' = [screen EXCEPT !.gg_pressed = FALSE]
    /\ table' = CursorMoved(table, 1)
    /\ keys' = [last |-> "j", age |-> 0]
    /\ TuiLedgerFrame

\* k
action_nav_up ==
    /\ table.mounted
    /\ screen' = [screen EXCEPT !.gg_pressed = FALSE]
    /\ table' = CursorMoved(table, -1)
    /\ keys' = [last |-> "k", age |-> 0]
    /\ TuiLedgerFrame

\* G: jump_to_bottom
action_nav_bottom ==
    /\ table.mounted
    /\ screen' = [screen EXCEPT !.gg_pressed = FALSE]
    /\ table' = [table EXCEPT !.cursor_row = IF Len(table.rows) > 0
                                              THEN Len(table.rows) - 1 ELSE @]
    /\ keys' = [last |-> "G", age |-> 0]
    /\ TuiLedgerFrame

\* g: the second press jumps to the top, the first arms the jump and starts a timer
action_nav_top ==
    /\ table.mounted
    /\ IF screen.gg_pressed
       THEN /\ table' = [table EXCEPT !.cursor_row = 0]
            /\ screen' = [screen EXCEPT !.gg_pressed = FALSE]
            /\ keys' = [last |-> "gg", age |-> 0]
       ELSE /\ screen' = [gg_pressed |-> TRUE,
                          timers |-> screen.timers \cup {TicksPerSecond}]
            /\ keys' = [last |-> "g", age |-> 0]
            /\ UNCHANGED table
    /\ TuiLedgerFrame

\* a third of a second passes; a timer that is due runs before more time passes
TuiTick ==
    /\ table.mounted
    /\ 0 \notin screen.timers
    /\ screen.timers # {} \/ (keys.last = "g" /\ keys.age <= TicksPerSecond)
    /\ screen' = [screen EXCEPT !.timers = {t - 1 : t \in @}]
    /\ keys' = IF keys.last = "g" /\ keys.age <= TicksPerSecond
               THEN [keys EXCEPT !.age = @ + 1] ELSE keys
    /\ UNCHANGED table
    /\ TuiLedgerFrame

\* the timer's callback: setattr(self, 'gg_pressed', False)
TuiTimer ==
    /\ table.mounted
    /\ 0 \in screen.timers
    /\ screen' = [gg_pressed |-> FALSE, timers |-> screen.timers \ {0}]
    /\ UNCHANGED <<table, keys>>
    /\ TuiLedgerFrame

NextList ==
    \/ setup_categories
    \/ \E batch \in ListBatches : ImportForList(batch)
    \/ TuiMount
    \/ TuiBack
    \/ action_filter_uncategorized
    \/ action_show_all
    \/ \E search_term \in SearchTerms : action_search(search_term)
    \/ \E category \in DefaultCategories : TuiCategorize(category)
    \/ \E new_description \in Descriptions : TuiEdit(new_description)
    \/ TuiDelete
    \/ action_nav_down
    \/ action_nav_up

SpecList == Init /\ [][NextList]_vars

NextKeys ==
    \/ setup_categories
    \/ \E batch \in ListBatches : ImportForList(batch)
    \/ TuiMount
    \/ action_nav_down
    \/ action_nav_up
    \/ action_nav_top
    \/ action_nav_bottom
    \/ TuiTick
    \/ TuiTimer

SpecKeys == Init /\ [][NextKeys]_vars

-----------------------------------------------------------------------------
(* utils.py: the custom month periods of the reports, and settings.py month_end_day.
   A date is a record of year, month and day; the text of a period is the sequence of
   the characters of 'YYYY-MM' *)

\* the years of the dates looked up
PeriodYears == {2024, 2025}
\* the values handed to the month_end_day setter
StartDayInputs == 0..29
\* settings.get('month_end_day', 25)
DefaultMonthEndDay == 25

IsLeap(y) == (y % 4 = 0 /\ y % 100 # 0) \/ y % 400 = 0

DaysInMonth(y, m) ==
    IF m = 2 THEN (IF IsLeap(y) THEN 29 ELSE 28)
    ELSE IF m \in {4, 6, 9, 11} THEN 30 ELSE 31

\* date + relativedelta(months=1): the next month, the day cut to that month's length
PlusOneMonth(date) ==
    LET y == IF date.month = 12 THEN date.year + 1 ELSE date.year
        m == IF date.month = 12 THEN 1 ELSE date.month + 1
    IN  [year |-> y, month |-> m,
         day |-> IF date.day > DaysInMonth(y, m) THEN DaysInMonth(y, m) ELSE date.day]

\* date - relativedelta(months=1)
MinusOneMonth(date) ==
    LET y == IF date.month = 1 THEN date.year - 1 ELSE date.year
        m == IF date.month = 1 THEN 12 ELSE date.month - 1
    IN  [year |-> y, month |-> m,
         day |-> IF date.day > DaysInMonth(y, m) THEN DaysInMonth(y, m) ELSE date.day]

\* date - timedelta(days=1)
MinusOneDay(date) ==
    IF date.day > 1 THEN [date EXCEPT !.day = @ - 1]
    ELSE LET p == MinusOneMonth([date EXCEPT !.day = 1])
         IN  [p EXCEPT !.day = DaysInMonth(p.year, p.month)]

\* date + timedelta(days=1)
PlusOneDay(date) ==
    IF date.day < DaysInMonth(date.year, date.month) THEN [date EXCEPT !.day = @ + 1]
    ELSE [PlusOneMonth([date EXCEPT !.day = 1]) EXCEPT !.day = 1]

\* date.strftime('%Y-%m')
StrftimeYm(date) ==
    <<date.year \div 1000, (date.year \div 100) % 10, (date.year \div 10) % 10,
      date.year % 10, "-", date.month \div 10, date.month % 10>>

\* year, month = period.split('-'); int(year), int(month)
SplitPeriod(period) ==
    [year |-> period[1] * 1000 + period[2] * 100 + period[3] * 10 + period[4],
     month |-> period[6] * 10 + period[7]]

\* a variant that leaves the start day itself in the running month
get_custom_month_period_after(date, month_end_day) ==
    IF date.day > month_end_day THEN StrftimeYm(PlusOneMonth(date)) ELSE StrftimeYm(date)

get_custom_month_period(date, month_end_day) ==
    IF date.day >= month_end_day THEN StrftimeYm(PlusOneMonth(date)) ELSE StrftimeYm(date)

\* get_period_label: the month and year it names and, for a custom period, the first and
\* the last day of the range it prints
get_period_label(period, month_end_day) ==
    LET p == SplitPeriod(period)
        end_month_date == [year |-> p.year, month |-> p.month, day |-> month_end_day]
        start_date == MinusOneMonth(end_month_date)
        end_date == MinusOneDay(end_month_date)
    IN  IF month_end_day = 1
        THEN [month |-> p.month, year |-> p.year, range |-> <<>>]
        ELSE [month |-> p.month, year |-> p.year,
              range |-> <<[day |-> start_date.day, month |-> start_date.month],
                          [day |-> end_date.day, month |-> end_date.month]>>]

NoLookup == [looked |-> FALSE]

\* the settings file holds no month_end_day yet; no period has been looked up
InitPeriod ==
    /\ InitLedger
    /\ InitSessionIdle
    /\ InitTuiClosed
    /\ mRules = <<>>
    /\ mTx = [date |-> [year |-> 2024, month |-> 1, day |-> 1],
              month_end_day |-> DefaultMonthEndDay]
    /\ mResult = NoLookup

PeriodFrame ==
    UNCHANGED <<accounts, mainAccts, balance, categories, expenses, catRules, xferRules,
                pc, queue, mark, lastImport, sessVars, tuiVars, mRules>>

\* the month_end_day setter: a day outside 1..28 raises ValueError and nothing is saved
SetMonthEndDay(day) ==
    /\ mTx' = IF 1 <= day /\ day <= 28 THEN [mTx EXCEPT !.month_end_day = day] ELSE mTx
    /\ mResult' = NoLookup
    /\ PeriodFrame

\* the report comes to a transaction of the following day
PeriodNextDay ==
    /\ PlusOneDay(mTx.date).year \in PeriodYears
    /\ mTx' = [mTx EXCEPT !.date = PlusOneDay(@)]
    /\ mResult' = NoLookup
    /\ PeriodFrame

\* the period of the transaction's date and its label
PeriodLookup ==
    /\ mResult' = [looked |-> TRUE, date |-> mTx.date, month_end_day |-> mTx.month_end_day,
                   period |-> get_custom_month_period(mTx.date, mTx.month_end_day),
                   label |-> get_period_label(
                                 get_custom_month_period(mTx.date, mTx.month_end_day),
                                 mTx.month_end_day)]
    /\ UNCHANGED mTx
    /\ PeriodFrame

NextPeriod ==
    \/ \E day \in StartDayInputs : SetMonthEndDay(day)
    \/ PeriodNextDay
    \/ PeriodLookup

SpecPeriod == InitPeriod /\ [][NextPeriod]_vars

-----------------------------------------------------------------------------
(* Properties *)

\* what row e adds to get_account_balance(account) of the present table
Contribution(e, account) ==
    get_account_balance(expenses, account) - get_account_balance(expenses \ {e}, account)

\* rows that some code path resolved as a transfer
Resolved == {e \in expenses : mark[e.id].how # "none"}

\* C1: for every account, the stored Account.balance equals the balance recomputed
\* from the transaction history by get_account_balance.
C1_StoredEqualsRecomputed ==
    \A a \in AccountNames : balance[a] = get_account_balance(expenses, a)

\* C2: deleting a transaction takes back the balance effect applied for it: the
\* Account.balance adjustments made when it was marked as a transfer are undone, and
\* the recomputed balances lose exactly the row's terms.
C2_DeleteReverses ==
    [][\A e \in expenses :
          (\A x \in expenses' : x.id # e.id) =>
              \A a \in AccountNames :
                  /\ balance'[a] = balance[a]
                                   + (IF mark[e.id].debited = a THEN e.amount ELSE 0)
                                   - (IF mark[e.id].credited = a THEN e.amount ELSE 0)
                  /\ get_account_balance(expenses', a) =
                        get_account_balance(expenses \ {x \in expenses :
                                               \A y \in expenses' : y.id # x.id}, a)]_vars

\* C3: a debit on resident account A resolved as a transfer with counterparty B takes its
\* amount off get_account_balance(A), adds it to get_account_balance(B) and leaves every
\* other account's balance as it is without the row.
C3_DebitTransferBalances ==
    \A e \in Resolved :
        ~e.is_credit =>
            /\ Contribution(e, mark[e.id].resident) = -e.amount
            /\ Contribution(e, mark[e.id].other) = e.amount
            /\ \A a \in AccountNames \ {mark[e.id].resident, mark[e.id].other} :
                  Contribution(e, a) = 0

\* a debit that import_transactions itself resolved as a transfer
C3_Witness ==
    \E e \in Resolved :
        /\ ~e.is_credit
        /\ mark[e.id].how = "import"
        /\ mark[e.id].other \in accounts \ {mark[e.id].resident}

\* C4: a credit on resident account A resolved as a transfer with counterparty B takes its
\* amount off get_account_balance(B) and adds it to get_account_balance(A).
C4_CreditTransferBalances ==
    \A e \in Resolved :
        e.is_credit =>
            /\ Contribution(e, mark[e.id].other) = -e.amount
            /\ Contribution(e, mark[e.id].resident) = e.amount

\* C5 (invariant I3): every transfer has a target account other than its source account.
C5_TransferTargetDiffers ==
    \A e \in expenses : e.is_transfer => e.target # e.account

\* C6 (invariant I2): no stored transaction has both a category and is_transfer set.
C6_CategoryXorTransfer ==
    \A e \in expenses : ~(e.category # None /\ e.is_transfer)

\* a transfer is stored, a category rule matches it, and the TUI could try to categorize it
C6_Witness ==
    /\ pc = "idle"
    /\ \E e \in expenses :
          /\ e.is_transfer
          /\ find_category_by_description(catRules, e.description, e.amount, e.is_credit) # None

\* two records or rows with the same date, description and amount
SameKey(x, y) == x.date = y.date /\ x.description = y.description /\ x.amount = y.amount

\* C7: importing the batch of the previous import again imports 0 records, skips as
\* many as the batch holds, and leaves the stored transactions and every account's
\* balance (stored and recomputed) as they were.
C7_ReimportIsNoop ==
    [][lastImport'.repeat =>
          /\ lastImport'.imported = 0
          /\ lastImport'.skipped = Len(lastImport'.batch)
          /\ expenses' = expenses
          /\ balance' = balance
          /\ \A a \in AccountNames :
                get_account_balance(expenses', a) = get_account_balance(expenses, a)]_vars

\* a batch of two records with different keys has just been imported a second time
C7_Witness ==
    /\ lastImport.repeat
    /\ Len(lastImport.batch) = 2
    /\ ~SameKey(lastImport.batch[1], lastImport.batch[2])
    /\ lastImport.skipped = 2

\* C8: an import record is skipped iff a transaction stored before the call, or a record
\* earlier in the same batch, has the same date, description and amount; is_credit,
\* reference and account play no part, and every record not skipped is stored.
C8_DuplicateKeyOnly ==
    [][lastImport'.recorded =>
          /\ Len(lastImport'.log) = Len(lastImport'.batch)
          /\ \A i \in 1..Len(lastImport'.batch) :
                LET r == lastImport'.batch[i]
                IN  /\ lastImport'.log[i] = "skipped" <=>
                           \/ \E e \in expenses : SameKey(e, r)
                           \/ \E j \in 1..(i - 1) : SameKey(lastImport'.batch[j], r)
                    /\ \E e \in expenses' : SameKey(e, r)]_vars

\* a record was dropped although the only stored transaction with its key is of the other
\* direction and on another account than the one the import books on
C8_Witness ==
    /\ lastImport.recorded
    /\ \E i \in 1..Len(lastImport.batch) :
          /\ lastImport.log[i] = "skipped"
          /\ \A j \in 1..(i - 1) : ~SameKey(lastImport.batch[j], lastImport.batch[i])
          /\ \A e \in expenses :
                SameKey(e, lastImport.batch[i]) =>
                    /\ e.is_credit # lastImport.batch[i].is_credit
                    /\ e.account # get_main_account

\* the transaction of the last lookup satisfies all match conditions of rule r
Eligible(r) ==
    /\ IsSubstring(r.pattern, UpperStr(mTx.description))
    /\ r.amount = {} \/ \E a \in r.amount :
                           mTx.amount - a <= Tolerance /\ a - mTx.amount <= Tolerance
    /\ r.is_credit = {} \/ mTx.is_credit \in r.is_credit

EligibleRules == {i \in 1..Len(mRules) : Eligible(mRules[i])}

\* the amount-qualified eligible rules if there are any, else the eligible rules
TopGroup ==
    IF \E i \in EligibleRules : mRules[i].amount # {}
    THEN {i \in EligibleRules : mRules[i].amount # {}}
    ELSE EligibleRules

\* a lookup has been made
Looked == mTx.description # <<>>

\* C9: when an amount-qualified rule and an unqualified rule both satisfy all match
\* conditions, find_category_by_description returns the category of an amount-qualified
\* rule, whatever the lengths of the patterns.
C9_AmountQualifiedFirst ==
    Looked =>
        ((\E i, j \in EligibleRules : mRules[i].amount # {} /\ mRules[j].amount = {}) =>
            \E i \in EligibleRules : mRules[i].amount # {} /\ mResult = mRules[i].category)

\* C10: when several rules of the highest eligible group satisfy all match conditions,
\* find_category_by_description returns the category of the rule with the strictly
\* longest pattern among them.
C10_LongestPatternWins ==
    Looked =>
        \A i \in TopGroup :
            (/\ Cardinality(TopGroup) >= 2
             /\ \A j \in TopGroup \ {i} : Len(mRules[i].pattern) > Len(mRules[j].pattern))
                => mResult = mRules[i].category

\* rule i comes before rule j in the rank order: amount-qualified first, then the longer
\* pattern
RanksBefore(i, j) ==
    \/ mRules[i].amount # {} /\ mRules[j].amount = {}
    \/ /\ (mRules[i].amount # {}) = (mRules[j].amount # {})
       /\ Len(mRules[i].pattern) > Len(mRules[j].pattern)

\* C11: find_category_by_description returns a category iff some rule is eligible (pattern
\* a substring of the upper-cased description, amount within 0.01 of the rule's if it has
\* one, is_credit equal to the rule's if it has one), and the category is that of an
\* eligible rule that no other eligible rule ranks before; with no eligible rule it
\* returns none.
C11_FirstEligibleRule ==
    Looked =>
        IF EligibleRules = {}
        THEN mResult = None
        ELSE \E i \in EligibleRules :
                /\ mResult = mRules[i].category
                /\ \A j \in EligibleRules : ~RanksBefore(j, i)

\* the transfer rules of the looked-up source account whose pattern is in the description
TransferCandidates ==
    {i \in 1..Len(mRules) :
        /\ mRules[i].source = mTx.source_account
        /\ IsSubstring(mRules[i].pattern, UpperStr(mTx.description))}

\* C12: find_transfer_by_description considers only the rules whose source account is the
\* resident account and whose pattern is a substring of the upper-cased description, and
\* returns the target of the one with the longest pattern, the earliest inserted of the
\* longest; it returns none when there is no such rule.
C12_DirectionalLongestMatch ==
    Looked =>
        IF TransferCandidates = {}
        THEN mResult = None
        ELSE \E i \in TransferCandidates :
                /\ mResult = mRules[i].target
                /\ \A j \in TransferCandidates :
                      \/ Len(mRules[j].pattern) < Len(mRules[i].pattern)
                      \/ Len(mRules[j].pattern) = Len(mRules[i].pattern) /\ i <= j

\* a rule of another source account with a longer matching pattern is passed over, and two
\* rules of the resident account with patterns of the same length and different targets
\* are resolved to the one inserted first
C12_Witness ==
    /\ Looked
    /\ \E i, j \in TransferCandidates :
          /\ i < j
          /\ Len(mRules[i].pattern) = Len(mRules[j].pattern)
          /\ mRules[i].target # mRules[j].target
          /\ mResult = mRules[i].target
    /\ \E k \in 1..Len(mRules) :
          /\ mRules[k].source # mTx.source_account
          /\ IsSubstring(mRules[k].pattern, UpperStr(mTx.description))
          /\ \A i \in TransferCandidates : Len(mRules[k].pattern) > Len(mRules[i].pattern)
          /\ mRules[k].target # mResult

\* a transfer rule of the row's account and a category rule both match row e
BothMatch(e) ==
    /\ find_transfer_by_description(xferRules, e.description, e.account) # None
    /\ find_category_by_description(catRules, e.description, e.amount, e.is_credit) # None

\* C13: a record that import_transactions stores, or a transaction that categorize_expenses
\* reaches, while both a transfer rule of the resident account and a category rule match
\* it, ends up as a transfer to the matched account with no category; and no stored
\* transaction has both a category and a transfer target.
C13_TransferPrecedence ==
    [][/\ \A e \in expenses' :
             ((\A x \in expenses : x.id # e.id) /\ BothMatch(e)) =>
                 /\ e.is_transfer
                 /\ e.category = None
                 /\ e.target = find_transfer_by_description(xferRules, e.description,
                                                            e.account)
       /\ (pc = "categorize" /\ queue # <<>> /\ BothMatch(Current)) =>
             \E e \in expenses' :
                 /\ e.id = Current.id
                 /\ e.is_transfer
                 /\ e.category = None
       /\ \A e \in expenses' : ~(e.category # None /\ e.target # None)]_vars

\* categorize_expenses found a transfer rule and a category rule for the same transaction
\* and made it a transfer
C13_Witness ==
    \E e \in expenses :
        /\ mark[e.id].how = "categorize-auto"
        /\ e.is_transfer
        /\ find_category_by_description(catRules, e.description, e.amount, e.is_credit) # None

\* C14: recording a transaction with both a category and a transfer target, or with a
\* transfer target equal to its source account, fails and stores nothing: no such row
\* ever appears in the table.
C14_RecordValidates ==
    [][\A e \in expenses' :
          (\A x \in expenses : x.id # e.id) =>
              /\ ~(e.category # None /\ e.target # None)
              /\ ~(e.target # None /\ e.target = e.account)]_vars

\* C15: assigning a category to a transaction that is a transfer is rejected: the row's
\* category and transfer flag and every balance stay as they were.
C15_NoCategoryOnTransfer ==
    [][\A e \in expenses :
          e.is_transfer =>
              \A x \in expenses' :
                  x.id = e.id =>
                      /\ x.category = e.category
                      /\ x.is_transfer = e.is_transfer
                      /\ balance' = balance
                      /\ \A a \in AccountNames :
                            get_account_balance(expenses', a) =
                               get_account_balance((expenses \ {e}) \cup {x}, a)]_vars

\* the rows that are transfers after the step and were not before it
BecomesTransfer ==
    {x \in expenses' : x.is_transfer /\ \A e \in expenses : e.id = x.id => ~e.is_transfer}

\* C16: a transaction becomes a transfer only from the uncategorized, non-transfer state
\* (or as it is stored), and the step that makes it a transfer subtracts its amount from
\* the stored balance of the source account and adds it to the stored balance of the
\* target account (debit: resident -> counterparty, credit: counterparty -> resident),
\* once.
C16_MarkTransferOnce ==
    [][\A x \in BecomesTransfer :
          LET resident == mark'[x.id].resident
              other == mark'[x.id].other
              source == IF x.is_credit THEN other ELSE resident
              target == IF x.is_credit THEN resident ELSE other
              debited == [balance EXCEPT ![source] = @ - x.amount]
          IN  /\ \A e \in expenses : e.id = x.id => e.category = None
              /\ x.category = None
              /\ mark'[x.id].how # "none"
              /\ balance' = [debited EXCEPT ![target] = @ + x.amount]]_vars

\* C17: editing a transaction's amount takes the old balance effect back and applies the
\* new one: the stored balances adjusted when the row was marked as a transfer move by the
\* difference on both accounts, every recomputed balance is what deleting the row and
\* recording it again with the new amount gives, and the row keeps its id.
C17_EditAmountReapplies ==
    [][\A e \in expenses :
          \A x \in expenses' :
              (x.id = e.id /\ x.amount # e.amount) =>
                  \A a \in AccountNames :
                      /\ balance'[a] = balance[a]
                                       + (IF mark[e.id].debited = a
                                          THEN e.amount - x.amount ELSE 0)
                                       + (IF mark[e.id].credited = a
                                          THEN x.amount - e.amount ELSE 0)
                      /\ get_account_balance(expenses', a) =
                            get_account_balance(
                                add_expense(delete_expense(expenses, e), x.date,
                                            x.description, x.amount, x.is_credit,
                                            x.category, x.reference, x.account,
                                            x.is_transfer, x.target), a)]_vars

\* C20: the rule store changes only when the user supplies a pattern after a manual
\* category or transfer choice: a step that changes the category rules or the transfer
\* rules starts at the select_category prompt (no automatic match for the current
\* transaction), resolves that transaction, and appends exactly one rule with one of the
\* user's patterns to one of the two tables, leaving the rules already there as they
\* were; import_transactions and the two automatic branches never change a rule.
AppendsOne(old, new) ==
    /\ Len(new) = Len(old) + 1
    /\ SubSeq(new, 1, Len(old)) = old
    /\ \E p \in Patterns : new[Len(new)].pattern = UpperStr(p)

C20_RulesOnlyFromUserPattern ==
    [][(catRules' # catRules \/ xferRules' # xferRules) =>
          /\ AtPrompt
          /\ Current \in get_uncategorized_expenses(expenses)
          /\ Row(expenses', Current.id) \notin get_uncategorized_expenses(expenses')
          /\ \/ (AppendsOne(catRules, catRules') /\ xferRules' = xferRules
                  /\ catRules'[Len(catRules')].category = Row(expenses', Current.id).category)
             \/ (AppendsOne(xferRules, xferRules') /\ catRules' = catRules
                  /\ Row(expenses', Current.id).is_transfer)]_vars

\* a rule the user supplied is in the store, and a transaction was later resolved by it
\* automatically, during import or in the automatic transfer branch
C20_Witness ==
    /\ Len(xferRules) = 1
    /\ \E e \in expenses : mark[e.id].how \in {"import", "categorize-auto"}

\* the session holds nothing that is not committed
NothingPending == work.expenses = expenses /\ work.balance = balance

\* what the stored balance of an account is when exactly the rows that categorize_expenses
\* committed as transfers have been applied, each one whole
RECURSIVE AppliedSum(_, _)
AppliedSum(rows, account) ==
    IF rows = {} THEN 0
    ELSE LET e == CHOOSE x \in rows : TRUE
             source == IF e.is_credit THEN mark[e.id].other ELSE mark[e.id].resident
             target == IF e.is_credit THEN mark[e.id].resident ELSE mark[e.id].other
         IN  (IF target = account THEN e.amount ELSE 0)
             - (IF source = account THEN e.amount ELSE 0)
             + AppliedSum(rows \ {e}, account)

\* every stored row that import_transactions did not store as a transfer is either a
\* whole transfer or no transfer at all, and the stored balances hold the amounts of the
\* whole transfers and nothing else
FullyAppliedOrNotAtAll ==
    /\ \A e \in expenses :
          \/ mark[e.id].how = "import"
          \/ ~e.is_transfer /\ e.target = None
          \/ e.is_transfer /\ e.target # None /\ e.target # e.account /\ ~e.is_credit
          \/ e.is_transfer /\ e.target # None /\ e.target = e.account /\ e.is_credit
    /\ \A a \in AccountNames :
          balance[a] = AppliedSum({e \in expenses : e.is_transfer
                                                    /\ mark[e.id].how # "import"}, a)

\* C18: balance-affecting changes of categorize_expenses are all-or-nothing with respect
\* to interruption: a step that stores the transfer flag of a transaction stores its
\* target account and both balance updates with it, and the stored balances change in
\* no other step of the run; wherever the loop waits for input the session holds no
\* uncommitted change; and so, interrupted or not, every stored transaction is either
\* fully applied or not applied at all.
C18_AllOrNothing ==
    [][/\ at'.pos \in InputPositions => NothingPending'
       /\ pc = "categorize" =>
             /\ \A x \in BecomesTransfer :
                   LET e == Row(expenses, x.id)
                   IN  /\ x.target = ActualTarget(e, MainOf(e), at.other)
                       /\ balance' = AdjustedBalance(balance, e, MainOf(e), at.other)
             /\ balance' # balance => BecomesTransfer # {}
       /\ FullyAppliedOrNotAtAll']_vars

\* the loop waits at the pattern prompt that follows a committed transfer, where EOF or
\* Ctrl-C can end the run: the row is stored as a transfer with its target and both
\* balances, and the session holds nothing else
C18_Witness ==
    /\ at.pos = "transfer_pattern"
    /\ NothingPending
    /\ LET e == Row(expenses, Head(queue))
       IN  /\ e.is_transfer
           /\ e.target = mark[e.id].credited
           /\ balance[mark[e.id].debited] = -e.amount
           /\ balance[mark[e.id].credited] = e.amount

\* C19: cancelling at an interactive prompt is a skip: a step that counts the current
\* transaction as skipped (choice 0 at the category prompt, cancel at the transfer-target
\* prompt, anything but 'y' at the delete confirmation) leaves the stored transactions,
\* every stored and recomputed balance, the categories and both rule tables unchanged,
\* leaves nothing uncommitted behind, and the transaction is still in the uncategorized
\* set.
C19_CancelIsSkip ==
    [][counts'.skipped > counts.skipped =>
          /\ at.pos \in {"select_category", "create_category", "select_transfer_target",
                         "confirm_delete"}
          /\ expenses' = expenses
          /\ balance' = balance
          /\ \A a \in AccountNames :
                get_account_balance(expenses', a) = get_account_balance(expenses, a)
          /\ catRules' = catRules
          /\ xferRules' = xferRules
          /\ categories' = categories
          /\ work' = work
          /\ NothingPending'
          /\ Row(expenses, Head(queue)) \in get_uncategorized_expenses(expenses')]_vars

\* the user cancelled at a prompt: the run went on to the end of its list, one transaction
\* is counted as skipped and it is still uncategorized
C19_Witness ==
    /\ at.pos = "top"
    /\ counts.skipped = 1
    /\ queue = <<>>
    /\ get_uncategorized_expenses(expenses) # {}

\* C21: rule patterns are stored upper-cased and matching is case-insensitive: every
\* stored pattern is the upper-cased text the user typed, and a lookup of description d
\* finds a category rule (a transfer rule) iff for some pattern p typed for such a rule,
\* upper(p) is a substring of upper(d), whatever the letter case of p and d.
TypedMatches(typed, d) ==
    \E i \in 1..Len(typed) : IsSubstring(UpperStr(typed[i]), UpperStr(d))

C21_CaseInsensitiveMatch ==
    /\ \A i \in 1..Len(CaseRules.category) :
          CaseRules.category[i].pattern = UpperStr(CaseRules.typedCategory[i])
    /\ \A i \in 1..Len(CaseRules.transfer) :
          CaseRules.transfer[i].pattern = UpperStr(CaseRules.typedTransfer[i])
    /\ mTx.description # <<>> =>
          /\ mResult.category # None <=> TypedMatches(CaseRules.typedCategory, mTx.description)
          /\ mResult.transfer # None <=> TypedMatches(CaseRules.typedTransfer, mTx.description)

\* a pattern typed in lower case found a description written in upper case, and a
\* pattern typed in upper case found one written in lower case
C21_Witness ==
    /\ mTx.description = <<"k", "p">>
    /\ CaseRules.typedCategory = << <<"k", "P">> >>
    /\ CaseRules.typedTransfer = << <<"p", "z">>, <<"k", "P">> >>
    /\ mResult.category = "Food"
    /\ mResult.transfer = CaseTarget

\* C22: creating a category rule or a transfer rule with an empty pattern stores no rule:
\* no stored rule has an empty pattern, in the stores filled through the Database methods
\* and in those of the ledger.
C22_NoEmptyPattern ==
    /\ \A i \in 1..Len(CaseRules.category) : CaseRules.category[i].pattern # <<>>
    /\ \A i \in 1..Len(CaseRules.transfer) : CaseRules.transfer[i].pattern # <<>>
    /\ \A i \in 1..Len(catRules) : catRules[i].pattern # <<>>
    /\ \A i \in 1..Len(xferRules) : xferRules[i].pattern # <<>>

\* C23: if the storage commit fails while a category rule or a transfer rule is being
\* added, the failure reaches the caller: whenever an add has stored no rule, the call
\* raised and the caller did not report the rule as saved.
C23_CommitFailurePropagates ==
    ("added" \in DOMAIN mTx /\ ~mResult.stored) =>
        (mResult.raised /\ ~mResult.reported)

\* C24: after any sequence of add_account (with or without is_main), set_main_account,
\* delete_account and import_transactions, at most one account has is_main set, and the
\* main account is an account that exists.
C24_AtMostOneMain ==
    /\ Cardinality(mainAccts) <= 1
    /\ mainAccts \subseteq accounts

\* the main account has moved: the account that import_transactions created is no longer
\* main, another one is, and a third account was added or deleted on the way
C24_Witness ==
    /\ "MainAccount" \in accounts
    /\ mainAccts = {"Revolut"}
    /\ "Main" \notin accounts
    /\ expenses # {}

\* C25: for every stored transaction, after any sequence of import, categorization,
\* transfer-marking, edit and balance-adjustment operations, target_account is set if and
\* only if is_transfer is set.
C25_TargetIffTransfer ==
    \A e \in expenses : (e.target # None) <=> e.is_transfer

\* a credit marked as a transfer in categorize_expenses (its target is its own account)
\* next to the rule saved for it
C25_Witness ==
    /\ Len(xferRules) = 1
    /\ \E e \in expenses :
          /\ e.is_credit
          /\ e.is_transfer
          /\ e.target = e.account
          /\ mark[e.id].how = "categorize"

\* C26: every stored transaction's amount is a non-negative magnitude after any sequence
\* of import, balance-adjustment and edit operations, the TUI edit that enters a new
\* amount included.
C26_AmountNonNegative ==
    \A e \in expenses : e.amount >= 0

\* C27: transaction lifecycle: in every step, a transaction that is a transfer and is not
\* deleted is still a transfer with the same account and the same target account (and
\* no category), and a transaction that is categorized and is not deleted is still
\* categorized and no transfer; only its category may be another one.
C27_Lifecycle ==
    [][\A e \in expenses : \A x \in expenses' :
          x.id = e.id =>
             /\ e.is_transfer =>
                   /\ x.is_transfer
                   /\ x.target = e.target
                   /\ x.account = e.account
                   /\ x.category = None
             /\ (e.category # None /\ ~e.is_transfer) =>
                   (x.category # None /\ ~x.is_transfer)]_vars

\* C28: delete_account is guarded: for every account, it returns False and deletes
\* nothing when the account is the main account or some transaction has it as its
\* account; otherwise it returns True and deletes exactly that account, leaving all other
\* accounts and all transactions unchanged.
C28_DeleteAccountGuarded ==
    \A account \in accounts :
       LET r == delete_account(account)
       IN  IF account \in mainAccts \/ (\E e \in expenses : e.account = account)
           THEN /\ ~r.returned
                /\ r.accounts = accounts
                /\ r.expenses = expenses
                /\ r.balance = balance
           ELSE /\ r.returned
                /\ r.accounts = accounts \ {account}
                /\ r.expenses = expenses
                /\ \A a \in accounts \ {account} : r.balance[a] = balance[a]

\* what setting the balance of `account` to new_balance has to leave behind, `current`
\* and `after` being the account's balance before and after the step as the operation
\* reads it: the balance is new_balance, and exactly one transaction was added, an
\* adjustment of |new_balance - current| in category "Inserted", a credit iff the
\* difference is positive
BalanceIsSet(account, new_balance, current, after) ==
    /\ after = new_balance
    /\ \E x \in expenses' \ expenses :
          /\ expenses' = expenses \cup {x}
          /\ x.account = account
          /\ x.amount = Abs(new_balance - current)
          /\ x.is_credit = (new_balance > current)
          /\ x.category = "Inserted"
          /\ ~x.is_transfer

\* C29: setting an account's balance to N, by Database.update_account_balance or by the
\* set-balance command, makes the account's balance equal N by adding exactly one
\* adjustment transaction of amount |N - current| in category "Inserted" (credit if the
\* difference is positive, debit otherwise); the balance is the recomputed one for
\* update_account_balance and the stored one for set-balance, as each reads it.
C29_SetBalance ==
    [][\A account \in AccountNames, new_balance \in TargetBalances, date \in Dates :
          /\ update_account_balance(account, new_balance, date) =>
                BalanceIsSet(account, new_balance, get_account_balance(expenses, account),
                             get_account_balance(expenses', account))
          /\ set_balance(account, new_balance, date) =>
                BalanceIsSet(account, new_balance, balance[account],
                             balance'[account])]_vars

\* C30: the clear-transactions command, confirmed with 'DELETE' and then 'yes', deletes
\* all transactions and resets every account balance to 0; if either confirmation is not
\* given, no transaction and no balance changes.
C30_ClearTransactions ==
    expenses # {} =>
       \A confirm1 \in ClearConfirm1, confirm2 \in ClearConfirm2 :
          LET r == ClearOutcome(confirm1, confirm2)
          IN  IF confirm1 = "DELETE" /\ confirm2 = "yes"
              THEN /\ r.expenses = {}
                   /\ \A a \in AccountNames : r.balance[a] = 0
              ELSE /\ r.expenses = expenses
                   /\ r.balance = balance

\* the signed sum of invariant I1, one row's share for account A
I1Term(e, A) ==
    (IF e.account = A
     THEN IF ~e.is_transfer THEN (IF e.is_credit THEN e.amount ELSE -e.amount)
          ELSE IF e.target # A THEN -e.amount ELSE 0
     ELSE 0)
    + (IF e.is_transfer /\ e.target = A THEN e.amount ELSE 0)

RECURSIVE I1Sum(_, _)
I1Sum(rows, A) ==
    IF rows = {} THEN 0
    ELSE LET e == CHOOSE x \in rows : TRUE
         IN  I1Term(e, A) + I1Sum(rows \ {e}, A)

\* C31: for every reachable ledger and every account A, get_account_balance(A) equals
\* the signed sum of invariant I1: over the rows whose source is A, +amount for a credit
\* that is no transfer, -amount for a debit that is no transfer and -amount for a transfer
\* to another account, plus +amount for every transfer whose target is A.
C31_BalanceIsSignedSum ==
    \A A \in AccountNames : get_account_balance(expenses, A) = I1Sum(expenses, A)

\* transfer rules saved for the manual transfer row e0: its pattern is in e0's description
\* and its accounts are the source and target the run used for e0
LearnedFrom(e0) ==
    {i \in 1..Len(xferRules) :
        /\ mark[e0.id].how = "categorize"
        /\ e0.is_transfer
        /\ xferRules[i].source = mark[e0.id].debited
        /\ xferRules[i].target = mark[e0.id].credited
        /\ IsSubstring(xferRules[i].pattern, UpperStr(e0.description))}

\* e is on the resident account of e0, has its direction and contains the pattern of rule i
SimilarTo(e, e0, i) ==
    /\ e.id # e0.id
    /\ e.account = mark[e0.id].resident
    /\ e.is_credit = e0.is_credit
    /\ IsSubstring(xferRules[i].pattern, UpperStr(e.description))

\* the run asks the user about row e
PromptsFor(e) ==
    /\ pc = "categorize"
    /\ at.pos = "select_category"
    /\ queue # <<>>
    /\ Head(queue) = e.id

\* C32: a learned transfer pattern fires again: once the user has marked a row on resident
\* account A as a transfer with counterparty B and given a pattern contained in its
\* description, a row on A of the same direction whose description contains the pattern is
\* resolved as a transfer with B by import or by categorize_expenses, and the user is never
\* prompted for it.
C32_LearnedTransferFires ==
    \A e0 \in expenses : \A i \in LearnedFrom(e0) : \A e \in expenses :
        SimilarTo(e, e0, i) =>
            /\ ~PromptsFor(e)
            /\ mark[e.id].how \in {"import", "categorize-auto"} =>
                   mark[e.id].other = mark[e0.id].other

\* C33: in the transactions screen the transaction the categorize, edit and delete actions
\* act on (get_selected_transaction) is the transaction displayed on the cursor row, in
\* every filter mode (all, uncategorized, search) and also when transactions share a date.
C33_SelectedIsDisplayed ==
    table.mounted => get_selected_transaction = DisplayedAtCursor

\* the last navigation key was a g that armed the jump, typed less than a second ago
SecondGInTime == keys.last = "g" /\ keys.age < TicksPerSecond

\* a lone g typed more than a second ago, with no key since
LoneGExpired == keys.last = "g" /\ keys.age > TicksPerSecond

\* C34: a g press that follows another g press by less than one second, with no j, k or G
\* in between and with the first press not itself completing a jump, always jumps to the
\* top of the list, whatever keys and timer callbacks came earlier; a single g followed by
\* more than one second without a key press leaves the jump un-armed.
C34_DoubleGJumpsToTop ==
    [][/\ (SecondGInTime /\ action_nav_top) =>
              (table'.cursor_row = 0 /\ ~screen'.gg_pressed)
       /\ LoneGExpired' => ~screen'.gg_pressed]_vars

\* the run waits for the user's decision about its current row
AsksUser == pc = "categorize" /\ at.pos \in {"select_category", "create_category"}

\* C35: a rule saved during a categorize_expenses run applies to the rest of the same run:
\* a later row of the run that a saved category or transfer rule matches is resolved by the
\* rule set and the user is not prompted for it.
C35_SavedRuleAppliesInRun ==
    AsksUser =>
        LET e == SessCurrent
        IN  /\ MainOf(e) # None =>
                   find_transfer_by_description(xferRules, e.description, MainOf(e)) = None
            /\ find_category_by_description(catRules, e.description, e.amount,
                                            e.is_credit) = None

\* the run has categorized its first row by hand, saved a pattern for it, and resolves its
\* second row by that rule
C35_Witness ==
    /\ pc = "categorize"
    /\ at.pos = "set_category"
    /\ ~at.manual
    /\ counts.categorized = 1
    /\ Cardinality(expenses) = 2
    /\ Len(catRules) = 1
    /\ at.category = catRules[1].category
    /\ \E e0 \in expenses : e0.category = catRules[1].category

\* the store after import_transactions has recorded trans with the rules as they are
DetectedAtImport(trans) ==
    LET st == ImportOne([rows |-> expenses, imported |-> 0, skipped |-> 0, log |-> <<>>,
                         mark |-> mark], trans, get_main_account)
    IN  [rows |-> st.rows, balance |-> balance]

\* the store after trans was recorded uncategorized and categorize_expenses has then
\* detected the transfer with the same rules
DetectedAtCategorize(trans) ==
    LET plain == add_expense(expenses, trans.date, trans.description, trans.amount,
                             trans.is_credit, None, trans.reference, get_main_account,
                             FALSE, None)
        e == Row(plain, NewId(expenses))
        other == find_transfer_by_description(xferRules, e.description, MainOf(e))
    IN  [rows |-> (plain \ {e}) \cup {MarkedRow(e, MainOf(e), other)},
         balance |-> AdjustedBalance(balance, e, MainOf(e), other)]

\* a statement row that is no duplicate and that a transfer rule of the main account matches
AutoDetectable(trans) ==
    /\ get_main_account # None
    /\ ~expense_exists(expenses, trans.date, trans.description, trans.amount)
    /\ find_transfer_by_description(xferRules, trans.description, get_main_account) # None

\* C36: the two auto-detection paths agree: for the same transaction, resident account and
\* rule set, detecting the transfer at import time and at categorize time gives a stored
\* transaction with the same is_transfer, source and target account, and the same change of
\* every account's stored and recomputed balance.
C36_DetectionPathsAgree ==
    \A trans \in Records :
        AutoDetectable(trans) =>
            LET i == DetectedAtImport(trans)
                c == DetectedAtCategorize(trans)
                ei == Row(i.rows, NewId(expenses))
                ec == Row(c.rows, NewId(expenses))
            IN  /\ ei.is_transfer = ec.is_transfer
                /\ ei.account = ec.account
                /\ ei.target = ec.target
                /\ \A a \in AccountNames :
                      /\ i.balance[a] = c.balance[a]
                      /\ get_account_balance(i.rows, a) = get_account_balance(c.rows, a)

\* C37: no stored transaction references, as source or as target account, an account that
\* has been deleted: after any sequence of operations including delete_account, every
\* transaction's account and target_account refer to existing accounts.
C37_NoDeletedAccountReferenced ==
    \A e \in expenses :
        /\ e.account \in accounts
        /\ e.target # None => e.target \in accounts

\* an account has been deleted that a stored transfer had as its target
C37_Witness ==
    \E e \in expenses :
        /\ e.is_transfer
        /\ mark[e.id].how # "none"
        /\ mark[e.id].credited \notin accounts
        /\ e.target = None

\* date a is not after date b
NotAfter(a, b) ==
    \/ a.year < b.year
    \/ a.year = b.year /\ a.month < b.month
    \/ a.year = b.year /\ a.month = b.month /\ a.day <= b.day

\* C38: with a start day D in 2..28, get_custom_month_period maps every date from day D of
\* month M through day D-1 of month M+1 to the same period, named after month M+1, the
\* month in which the period ends, with the year rolling over from December to January.
C38_CustomPeriodNamedAfterEndMonth ==
    (mResult.looked /\ mResult.month_end_day \in 2..28) =>
        LET p == SplitPeriod(mResult.period)
            D == mResult.month_end_day
            first == MinusOneMonth([year |-> p.year, month |-> p.month, day |-> D])
            last == [year |-> p.year, month |-> p.month, day |-> D - 1]
        IN  /\ p.month \in 1..12
            /\ mResult.period = StrftimeYm([year |-> p.year, month |-> p.month, day |-> 1])
            /\ NotAfter(first, mResult.date)
            /\ NotAfter(mResult.date, last)

\* 25 Dec 2024 with start day 25 was looked up and is in period 2025-01
C38_Witness ==
    /\ mResult.looked
    /\ mResult.month_end_day = 25
    /\ mResult.date = [year |-> 2024, month |-> 12, day |-> 25]
    /\ mResult.period = <<2, 0, 2, 5, "-", 0, 1>>

\* C39: with month start day 1 a period is the calendar month itself:
\* get_custom_month_period maps every date to its own calendar month, consistent with
\* get_period_label, which labels the period of a standard month with the period month.
C39_StandardMonthIsCalendarMonth ==
    (mResult.looked /\ mResult.month_end_day = 1) =>
        /\ mResult.period = StrftimeYm(mResult.date)
        /\ mResult.label.month = mResult.date.month
        /\ mResult.label.year = mResult.date.year

====
